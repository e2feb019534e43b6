----------------------------- MODULE DirectorLoop -----------------------------
(***************************************************************************)
(* The staged ResearchDirector of .stockbot/omp/lib/research-director.ts   *)
(* driving one session of the kernel: between two turns of the model it    *)
(* inspects the session, makes at most one transition (freeze, committee,  *)
(* decision, source job) and gives the model the next prompt; the model    *)
(* dispatches children, whose results it records.                          *)
(*                                                                         *)
(* It composes with ResearchKernel: a call of the Director, or of a child  *)
(* it waits for, is one call of the kernel, and only one runs at a time.   *)
(* The bridge of a call may die inside it, an answer may be lost, and the  *)
(* host may die and the session be resumed (/research-resume).             *)
(*                                                                         *)
(* The Director reads session.evidence_ids, which no operation of the      *)
(* kernel writes: only the headless runner does, when its own fetch ends   *)
(* (runner.py, _persist_fetch_success).  So a session is either new        *)
(* (/research) or one such a runner left behind, and noted never changes.  *)
(***************************************************************************)
EXTENDS ResearchKernel

CONSTANTS
    MaxOutages,     \* calls and hosts that die (a bound of the model)
    MaxStrays       \* source children that leave the job they were named open (a bound)

ASSUME OneCaller == (\E c \in Client : Client = {c}) /\ MaxOutages \in Nat /\ MaxStrays \in Nat

VARIABLES
    noted,      \* evidence_ids of the session row
    loop        \* the Director: where it is, its prompt, the batch it waits for

loopVars == <<vars, noted, loop>>

Stage == {"SOURCE", "COMMITTEE", "FINAL"}
Waiting == {"planning", "closing", "filing", "failing", "freezing", "seeding", "deciding", "starting", "calling"}
LoopState == [at : {"turn", "children", "recording", "advance", "over"} \union Waiting,
              prompt : {"text", "fetch", "wave", "trio", "finalize"},
              job : 0..MaxJobs, wave : 0..MaxWaves + 1, batch : SUBSET Job, stage : Stage \union {"none"},
              lost : BOOLEAN, outages : 0..MaxOutages, strays : 0..MaxStrays]

LoopTypeOK ==
    /\ TypeOK /\ noted \subseteq Evidence /\ loop \in LoopState
    /\ loop.at \in {"children", "recording", "filing", "closing", "failing"} => loop.batch # {}

Me == CHOOSE c \in Client : TRUE
Quiescent == At(Me, "idle")
KernelQuiet == UNCHANGED vars

-----------------------------------------------------------------------------
(* What the Director derives from a snapshot (deriveState, trioState) *)

SourceJobs(w) == {j \in Job : Row(j) /\ jobs[j].type = "source_agent" /\ jobs[j].wave = w}
First(S) == CHOOSE j \in S : \A k \in S : j <= k
Open(j) == jobs[j].status \in OpenJob
SourceOpen(w) == SourceJobs(w) # {} /\ Open(First(SourceJobs(w)))

ActiveWave == LiveWave(session)

TrioDone == session.latest # 0 /\ \A r \in Role : \E j \in session.runs[session.latest] :
                jobs[j].type = r /\ jobs[j].status = "completed"

\* Running committee jobs of the latest freeze that no run holds yet.
Eligible == {j \in Job : /\ jobs[j].status = "running" /\ jobs[j].type \in Role
                         /\ session.latest # 0 /\ jobs[j].wave = session.latest
                         /\ j \notin session.runs[session.latest]}

NextWaveActive == session.wave > session.latest \/ \E w \in Wave : w > session.latest /\ SourceJobs(w) # {}
GateStopped == session.status = "synthesizing" \/ session.status \in TerminalSession

\* Mutant: a heard trio is final, though the next wave is authorized.
MirrorStageFinal ==
    IF session.status \in {"synthesizing", "completed"} \/ TrioDone THEN "FINAL"
    ELSE IF session.frozen # {} \/ session.status \in {"freezing", "analyzing"} THEN "COMMITTEE" ELSE "SOURCE"

\* The mirror of the stage gate, and the kernel's own (stage.py).
MirrorStage ==
    IF session.status \in {"synthesizing", "completed"} THEN "FINAL"
    ELSE IF TrioDone THEN (IF NextWaveActive THEN "SOURCE" ELSE "FINAL")
    ELSE IF session.frozen # {} \/ session.status \in {"freezing", "analyzing"} THEN "COMMITTEE" ELSE "SOURCE"

KernelStage ==
    IF session.status \in {"synthesizing", "completed"} THEN "FINAL"
    ELSE IF session.status = "targeted_research" THEN "SOURCE"
    ELSE IF session.frozen # {} \/ session.status \in {"freezing", "analyzing"}
         THEN (IF TrioDone THEN "FINAL" ELSE "COMMITTEE") ELSE "SOURCE"

-----------------------------------------------------------------------------
(* Starting and resuming *)

\* startResearch: the kernel's new session, and the first prompt for its source job.
StartResearch ==
    /\ Init /\ noted = {}
    /\ loop = [at |-> "turn", prompt |-> "fetch", job |-> 1, wave |-> 0, batch |-> {}, stage |-> "SOURCE",
               lost |-> FALSE, outages |-> 0, strays |-> 0]

\* resumeResearch of a session whose runner saved the dossier of its first wave and
\* died before or after it completed the source job.
ResumeRunner ==
    /\ noted \in SUBSET Evidence \ {{}}
    /\ session = [NewSession EXCEPT !.status = "researching", !.wave = 1, !.dossiers = {1}]
    /\ \E row \in {[NoRow EXCEPT !.status = "running"], [NoRow EXCEPT !.status = "completed", !.result = "outcome"]} :
           jobs = [j \in Job |-> IF j = 1 THEN row ELSE NoRow]
    /\ ledger = [e \in Evidence |-> IF e \in noted THEN 1 ELSE 0]
    /\ freezes = [stored |-> {}, ids |-> [w \in Wave |-> {}]]
    /\ \E verdict \in {"residual", "drained"} : dossiers = [stored |-> {1}, latest |-> verdict]
    /\ call = [c \in Client |-> Idle]
    /\ loop = [at |-> "advance", prompt |-> "text", job |-> 0, wave |-> 0, batch |-> {}, stage |-> "none",
               lost |-> FALSE, outages |-> 0, strays |-> 0]

LoopInit == StartResearch \/ ResumeRunner

\* What the stage gate of the Director last saw: the stage of the latest inspect.
Inspected == loop.at \in {"advance", "turn"} \/ (loop.at \in {"seeding", "starting"} /\ ~loop.lost)
Seen == IF Inspected THEN MirrorStage ELSE loop.stage

\* A transition to the next turn, or to waiting for a call of the kernel.
Turn(p, j) == loop' = [loop EXCEPT !.at = "turn", !.prompt = p, !.job = j, !.stage = Seen, !.lost = FALSE]
Await(where, w) == loop' = [loop EXCEPT !.at = where, !.wave = w, !.stage = Seen, !.lost = FALSE]

\* A service call that is refused before its first write changes nothing.
Freezable(w) == session.status \in {"created", "planning"} \/ FreezeReady(session.status, w)

Freeze(w) ==
    \/ /\ w \in Wave /\ Freezable(w)
       /\ FreezeRead(Me) /\ call'[Me].wave = w
       /\ Await("freezing", w)
    \/ (w \notin Wave \/ ~Freezable(w)) /\ Turn("text", 0) /\ KernelQuiet

Seed(w) == CommitteeRoles(Me) /\ call'[Me].wave = w /\ Await("seeding", w)

-----------------------------------------------------------------------------
(* advanceOnAgentEnd: after each turn of the model *)

Snapshot == loop.at = "advance" /\ Quiescent /\ UNCHANGED noted
Finished == session.final # 0 \/ session.status \in TerminalSession

AdvanceOver ==
    /\ Snapshot /\ Finished
    /\ loop' = [loop EXCEPT !.at = "over"]
    /\ KernelQuiet

\* No evidence noted, and the active wave has no source job or an open one.
NoEvidenceYet ==
    noted = {} /\ (SourceJobs(ActiveWave) = {} \/ SourceOpen(ActiveWave))

AdvanceFetch ==
    /\ Snapshot /\ ~Finished /\ NoEvidenceYet
    /\ Turn("fetch", 1)
    /\ KernelQuiet

\* Nothing frozen: wait for the first wave's source job, then freeze the wave.
AdvanceFirst ==
    /\ Snapshot /\ ~Finished /\ ~NoEvidenceYet /\ session.frozen = {}
    /\ \/ Open(1) /\ Turn("fetch", 1) /\ KernelQuiet
       \/ ~Open(1) /\ Freeze(1)

AdvanceCommittee ==
    /\ Snapshot /\ ~Finished /\ ~NoEvidenceYet /\ session.frozen # {} /\ ~TrioDone
    /\ Seed(session.latest)

TrioHeard == Snapshot /\ ~Finished /\ ~NoEvidenceYet /\ TrioDone

AdvanceStopped ==
    /\ TrioHeard /\ GateStopped
    /\ Turn("finalize", 0)
    /\ KernelQuiet

AdvanceDecide ==
    /\ TrioHeard /\ ~GateStopped /\ ~NextWaveActive
    /\ DecideRead(Me)
    /\ Await("deciding", ActiveWave)

Unfrozen == noted \ freezes.ids[session.latest]

\* Mutant: the source job of the wave is opened with its decision, not after a resume.
DriveOpened(w) ==
    \/ /\ SourceJobs(w) = {} /\ loop.at = "deciding"
       /\ StartJobRead(Me) /\ call'[Me].wave = w
       /\ Await("starting", w)
    \/ /\ SourceJobs(w) = {} /\ loop.at # "deciding"
       /\ Turn("text", 0) /\ KernelQuiet
    \/ /\ SourceOpen(w) /\ Unfrozen = {}
       /\ Turn("wave", First(SourceJobs(w))) /\ KernelQuiet
    \/ /\ SourceJobs(w) # {} /\ (SourceOpen(w) => Unfrozen # {})
       /\ Freeze(w)

\* Drive wave w: open its source job, keep fetching, or freeze it.
Drive(w) ==
    \/ /\ SourceJobs(w) = {}
       /\ StartJobRead(Me) /\ call'[Me].wave = w
       /\ Await("starting", w)
    \/ /\ SourceOpen(w) /\ Unfrozen = {}
       /\ Turn("wave", First(SourceJobs(w)))
       /\ KernelQuiet
    \/ /\ SourceJobs(w) # {} /\ (SourceOpen(w) => Unfrozen # {})
       /\ Freeze(w)

AdvanceDrive ==
    /\ TrioHeard /\ ~GateStopped /\ NextWaveActive
    /\ Drive(ActiveWave)

-----------------------------------------------------------------------------
(* The answers the Director waits for *)

Answered(where) == loop.at = where /\ Quiescent /\ UNCHANGED noted

\* freezeWave, then seedTrio; a refused or lost freeze leaves the run staged.
FreezeAnswer ==
    /\ Answered("freezing")
    /\ \/ ~loop.lost /\ loop.wave \in session.frozen /\ Seed(loop.wave)
       \/ (loop.lost \/ loop.wave \notin session.frozen) /\ Turn("text", 0) /\ KernelQuiet

\* seedTrio: the prompt names the roles that are running and not recorded.
SeedAnswer ==
    /\ Answered("seeding")
    /\ Turn(IF TrioDone /\ ~loop.lost THEN "finalize" ELSE "trio", 0)
    /\ KernelQuiet

\* Mutant: the answer of the gate is not looked at.
DecideAnswerUnread ==
    /\ Answered("deciding")
    /\ IF loop.lost THEN Turn("text", 0) ELSE Turn("finalize", 0)
    /\ KernelQuiet

\* A decision that stops finalizes at once; an authorized wave is driven at once.
DecideAnswer ==
    /\ Answered("deciding")
    /\ \/ loop.lost /\ Turn("text", 0) /\ KernelQuiet
       \/ ~loop.lost /\ session.status # "targeted_research" /\ Turn("finalize", 0) /\ KernelQuiet
       \/ ~loop.lost /\ session.status = "targeted_research" /\ Drive(loop.wave)

StartAnswer ==
    /\ Answered("starting")
    /\ LET mine == {j \in SourceJobs(loop.wave) : Open(j)}
       IN  IF loop.lost \/ mine = {} THEN Turn("text", 0) ELSE Turn("wave", First(mine))
    /\ KernelQuiet

-----------------------------------------------------------------------------
(* The turn of the model: it does what the prompt asks, or nothing *)

AtTurn == loop.at = "turn" /\ Quiescent /\ UNCHANGED noted

EndTurn ==
    /\ AtTurn
    /\ loop' = [loop EXCEPT !.at = "advance"]
    /\ KernelQuiet

\* planTaskCall of a sec-agent: one more source job of the active wave.
PlanSource ==
    /\ AtTurn /\ loop.prompt \in {"fetch", "wave"} /\ MirrorStage = "SOURCE"
    /\ StartJobRead(Me) /\ call'[Me].wave = ActiveWave
    /\ loop' = [loop EXCEPT !.at = "planning", !.wave = ActiveWave, !.lost = FALSE, !.stage = Seen,
                            !.batch = IF Admit("source_agent") THEN {NewJob} ELSE {}]

\* planTaskCall of the committee: the roles are created again, a no-op for those that exist.
PlanTrio ==
    /\ AtTurn /\ loop.prompt = "trio" /\ MirrorStage = "COMMITTEE" /\ session.latest # 0
    /\ CommitteeRoles(Me) /\ call'[Me].wave = session.latest
    /\ Await("planning", session.latest)

\* The new source job, if it was admitted; or the running job of each role the prompt named.
Planned == IF loop.prompt = "trio" THEN Eligible ELSE {j \in loop.batch : Row(j)}

\* Mutant: a refused or empty batch is dispatched.
PlanAnswerAnyway ==
    /\ Answered("planning")
    /\ loop' = [loop EXCEPT !.at = IF loop.lost THEN "advance" ELSE "children", !.lost = FALSE,
                            !.batch = IF loop.lost THEN {} ELSE Planned]
    /\ KernelQuiet

PlanAnswer ==
    /\ Answered("planning")
    /\ IF loop.lost \/ Planned = {} \/ (loop.prompt = "trio" /\ MissingRoles(loop.wave) # {})
       THEN loop' = [loop EXCEPT !.at = "advance", !.lost = FALSE, !.batch = {}]
       ELSE loop' = [loop EXCEPT !.at = "children", !.batch = Planned]
    /\ KernelQuiet

\* research_finalize of the main session passes both stage gates.
Finalize ==
    /\ AtTurn /\ loop.prompt = "finalize" /\ loop.stage = "FINAL" /\ KernelStage = "FINAL"
    /\ FinalizeRead(Me)
    /\ loop' = [loop EXCEPT !.at = "calling", !.lost = FALSE]

\* research_cancel is allowed in every stage.
Cancel ==
    /\ AtTurn
    /\ CancelResearchRead(Me)
    /\ loop' = [loop EXCEPT !.at = "calling", !.lost = FALSE]

CallAnswer ==
    /\ Answered("calling")
    /\ loop' = [loop EXCEPT !.at = "advance", !.lost = FALSE]
    /\ KernelQuiet

-----------------------------------------------------------------------------
(* The children of a batch, and recordTaskResult *)

SourceBatch == \E j \in loop.batch : jobs[j].type = "source_agent"

\* A source child works on the job its context names or on the one the prompt names.
Child == loop.at = "children" /\ UNCHANGED <<noted, loop>>
ItsJobs == loop.batch \union ({loop.job} \ {0})

ChildRecords ==
    /\ Child /\ SourceBatch /\ KernelStage = "SOURCE"
    /\ RecordEvidenceRead(Me) /\ call'[Me].job \in ItsJobs

ChildSubmits ==
    /\ Child /\ SourceBatch /\ KernelStage = "SOURCE"
    /\ SubmitRead(Me) /\ call'[Me].job \in ItsJobs

LeftOpen == loop.job # 0 /\ Open(loop.job)

ChildrenEnd ==
    /\ loop.at = "children" /\ Quiescent /\ UNCHANGED noted
    /\ SourceBatch /\ LeftOpen => loop.strays < MaxStrays
    /\ loop' = [loop EXCEPT !.at = "recording", !.strays = IF SourceBatch /\ LeftOpen THEN @ + 1 ELSE @]
    /\ KernelQuiet

Recording(j) == loop.at = "recording" /\ Quiescent /\ j \in loop.batch /\ \A k \in loop.batch : j <= k /\ UNCHANGED noted

\* A committee child returned its envelope.
FileAnalysis(j) ==
    /\ Recording(j) /\ jobs[j].type \in Role
    /\ RecordAnalysisRead(Me) /\ call'[Me].job = j
    /\ loop' = [loop EXCEPT !.at = "filing", !.lost = FALSE]

\* A child failed, was aborted, gave no valid envelope or no submission: its job, if
\* still open, is failed or cancelled.
CloseChild(j) ==
    /\ Recording(j) /\ Open(j)
    /\ CloseJobRead(Me) /\ call'[Me].job = j
    /\ loop' = [loop EXCEPT !.at = "closing", !.lost = FALSE]

Recorded == LET rest == loop.batch \ {First(loop.batch)}
            IN  loop' = [loop EXCEPT !.at = IF rest = {} THEN "advance" ELSE "recording", !.batch = rest, !.lost = FALSE]

ChildDone(j) ==
    /\ Recording(j) /\ ~Open(j)
    /\ Recorded
    /\ KernelQuiet

FailJob(j) ==
    /\ CloseJobRead(Me) /\ call'[Me].job = j /\ call'[Me].row.status = "failed"
    /\ loop' = [loop EXCEPT !.at = "failing", !.lost = FALSE]

\* A recording that raised fails the job, unless it is closed by then.
FileAnswer ==
    /\ Answered("filing")
    /\ \/ Open(First(loop.batch)) /\ FailJob(First(loop.batch))
       \/ ~Open(First(loop.batch)) /\ Recorded /\ KernelQuiet

\* So does a failure or cancellation whose answer was lost; the second one is not looked at.
CloseAnswer ==
    /\ Answered("closing")
    /\ \/ loop.lost /\ Open(First(loop.batch)) /\ FailJob(First(loop.batch))
       \/ ~(loop.lost /\ Open(First(loop.batch))) /\ Recorded /\ KernelQuiet

FailAnswer == Answered("failing") /\ Recorded /\ KernelQuiet

-----------------------------------------------------------------------------
(* Failures *)

Fail == loop.outages < MaxOutages /\ UNCHANGED noted

\* The bridge dies inside a call: the caller gets an error.
BridgeDies ==
    /\ Fail
    /\ Crash(Me)
    /\ loop' = [loop EXCEPT !.outages = @ + 1, !.lost = loop.at \in Waiting]

\* The call is done but its answer never comes.
AnswerLost ==
    /\ Fail /\ loop.at \in Waiting /\ Quiescent /\ ~loop.lost
    /\ loop' = [loop EXCEPT !.outages = @ + 1, !.lost = TRUE]
    /\ KernelQuiet

\* inspect fails: the model is told to reply with text, and the run stays staged.
InspectFails ==
    /\ Fail /\ loop.at = "advance" /\ Quiescent
    /\ loop' = [loop EXCEPT !.outages = @ + 1, !.at = "turn", !.prompt = "text", !.job = 0]
    /\ KernelQuiet

\* The host dies with its bridge, its batches and its snapshots; the user resumes the session.
HostDies ==
    /\ Fail /\ loop.at # "over"
    /\ Return(Me) /\ StoreUnchanged
    /\ loop' = [loop EXCEPT !.outages = @ + 1, !.at = "advance", !.prompt = "text", !.job = 0, !.wave = 0,
                            !.batch = {}, !.stage = "none", !.lost = FALSE]

-----------------------------------------------------------------------------
KernelStep == ~Quiescent /\ (JobStep(Me) \/ EvidenceStep(Me) \/ CommitteeStep(Me) \/ DirectorStep(Me))
              /\ UNCHANGED <<noted, loop>>

Advance == \/ AdvanceOver \/ AdvanceFetch \/ AdvanceFirst \/ AdvanceCommittee
           \/ AdvanceStopped \/ AdvanceDecide \/ AdvanceDrive
Answer == \/ FreezeAnswer \/ SeedAnswer \/ DecideAnswer \/ StartAnswer
          \/ PlanAnswer \/ CallAnswer \/ FileAnswer \/ CloseAnswer \/ FailAnswer
Record == \E j \in Job : FileAnalysis(j) \/ CloseChild(j) \/ ChildDone(j)
Obey == PlanSource \/ PlanTrio \/ Finalize

LoopNext == \/ KernelStep \/ Advance \/ Answer \/ Record \/ EndTurn \/ Obey \/ Cancel
            \/ ChildRecords \/ ChildSubmits \/ ChildrenEnd
            \/ BridgeDies \/ AnswerLost \/ InspectFails \/ HostDies

LoopSpec == LoopInit /\ [][LoopNext]_loopVars

\* The kernel answers, the Director acts on every answer and at the end of every turn, and
\* turns end; the model and its children do sooner or later what they are asked when they
\* can, and children end.  Nothing makes a turn cancel, or a child leave its job open.
Progress == KernelStep \/ Advance \/ Answer \/ Record \/ EndTurn
FairSpec == LoopSpec /\ WF_loopVars(Progress)
                     /\ SF_loopVars(Obey) /\ SF_loopVars(ChildSubmits) /\ SF_loopVars(ChildrenEnd)

-----------------------------------------------------------------------------
(* Properties *)

Live == session.status \notin TerminalSession

\* The mirror of the stage gate in the Director and the gate of the kernel derive one
\* stage from the rows of a live session, though each reads other fields of them.
StagesAgree == Quiescent /\ Live => MirrorStage = KernelStage

\* A role of the latest freeze whose job ended with no analysis filed: it failed, was
\* cancelled, or a crash came between its completion and its filing.  No call of the
\* Director opens another, so the trio of the freeze is never complete.
Spent == session.latest # 0 /\ \E r \in Role : \E j \in Job :
    /\ Row(j) /\ jobs[j].type = r /\ jobs[j].wave = session.latest /\ ~Open(j)
    /\ jobs[j].status = "completed" => j \notin session.runs[session.latest]

\* A source job that no child of a prompt can close: a call died before it was started,
\* or no batch holds it any more and it is not the one the prompts name.
Orphaned == \E j \in Job :
    /\ Row(j) /\ jobs[j].type = "source_agent"
    /\ \/ jobs[j].status = "queued"
       \/ jobs[j].status = "running" /\ j \notin loop.batch /\ j # First(SourceJobs(jobs[j].wave))

\* The repeated fetch: no evidence is noted, so after a freeze, when the next wave has no
\* source job yet, the Director asks for more SEC work (advanceOnAgentEnd, first branch).
\* GateReached fails on it: the stage is COMMITTEE or FINAL by then, and both gates refuse.
RepeatedFetch == loop.prompt = "fetch" /\ noted = {} /\ session.frozen # {}

\* What a prompt asks can be done when the turn starts, in new sessions and resumed ones and
\* whatever died before, but for the repeated fetch: both stage gates pass it, its source job
\* is open and of the live wave, its committee has a role to run, and a session told to
\* finalize waits for its answer (advanceOnAgentEnd).
PromptServable ==
    loop.at = "turn" /\ ~RepeatedFetch =>
        /\ loop.prompt \in {"fetch", "wave"} =>
               /\ loop.stage = "SOURCE" /\ KernelStage = "SOURCE"
               /\ Open(loop.job) /\ jobs[loop.job].wave = ActiveWave
        /\ loop.prompt = "trio" =>
               /\ KernelStage = "COMMITTEE"
               /\ Eligible # {} \/ MissingRoles(session.latest) # {} \/ Spent
        /\ loop.prompt = "finalize" =>
               loop.stage = "FINAL" /\ KernelStage = "FINAL" /\ session.status = "synthesizing"

\* A session that has noted evidence comes to its end, through any call that dies, any
\* answer that is lost and any resume, unless a role is spent or a source job orphaned.
SessionEnds == noted # {} ~> (loop.at = "over" \/ (Quiescent /\ (Spent \/ Orphaned)))

\* "The wave gate alone decides continue vs finalize, for every wave": a session whose
\* trio is heard comes to its decision (research-director.ts, file comment).
GateReached == TrioDone /\ session.status = "analyzing" ~> session.status # "analyzing"

=============================================================================
