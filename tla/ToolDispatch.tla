----------------------------- MODULE ToolDispatch -----------------------------
(***************************************************************************)
(* The tool calls of the source jobs of one research session, at the Pi    *)
(* gateway (pi_gateway.py _run_pre_gates) and below it                     *)
(* (service.py authorize_and_consume_dispatch, heartbeat_job,              *)
(* record_evidence; repository.py consume_dispatch_budget).                *)
(*                                                                         *)
(* A data dispatch bills the job and the session in one transaction, is    *)
(* refused if it repeats an action that brought no evidence, tracks itself *)
(* in the job's row, and beats the job's heart.  The transaction is the    *)
(* only place that holds the store from its read to its write: every later *)
(* step writes the whole job row it read earlier, and every other service  *)
(* call the whole session row.  A source agent records its findings        *)
(* between dispatches.  Deadlines pass at any time, and a call may die at  *)
(* any step with its process.                                              *)
(*                                                                         *)
(* Submitting, closing and cancelling jobs is in ResearchKernel.           *)
(***************************************************************************)
EXTENDS Integers, FiniteSets

CONSTANTS
    Worker,         \* the tool calls that run at the same time, one after another on each worker
    Job,            \* the running source jobs
    JobOf,          \* the job each worker's calls belong to; nothing keeps the calls of one job apart
    Action,         \* normalized actions: a tool with its arguments
    Budget,         \* tool_budget of a job when it starts
    MaxCalls,       \* the session's dispatch ceiling (_session_max_calls)
    MaxEvidence     \* bound: evidence records of the session

ASSUME JobAssumption == JobOf \in [Worker -> Job]
ASSUME LimitsAssumption == Budget \in Nat /\ MaxCalls \in Nat /\ MaxEvidence \in Nat

VARIABLES
    row,        \* the persisted row of each job
    used,       \* the session's tool_calls_used
    service,    \* the tool_calls_used of the session row a service call has read and will save
    evidence,   \* how many evidence records the session has
    expired,    \* the jobs whose deadline has passed
    pc,         \* the next step of each worker's call
    action,     \* the action it dispatches
    held,       \* the job row it read and will write
    blocked,    \* the research_loop_detected events: job, action, evidence_count
    consumed,   \* history: the dispatches billed to each job
    admits      \* history: how often each action of a job was let through at each evidence count

vars == <<row, used, service, evidence, expired, pc, action, held, blocked, consumed, admits>>
store == <<row, used, service, evidence, expired>>
history == <<blocked, consumed, admits>>

Unseen == -1
Unread == -1
Count == 0..MaxEvidence
\* The slice of a job row dispatch touches; seen is diagnostics["dispatch_actions"].
JobRow == [status : {"running", "timed_out"}, budget : 0..Budget, seen : [Action -> Count \union {Unseen}]]
Steps == {"idle", "gate", "track", "beat", "save_beat", "time_out", "record"}
Fresh == [status |-> "running", budget |-> Budget, seen |-> [a \in Action |-> Unseen]]

Init ==
    /\ row = [j \in Job |-> Fresh]
    /\ used = 0 /\ service = Unread /\ evidence = 0 /\ expired = {}
    /\ pc = [w \in Worker |-> "idle"]
    /\ \E a \in Action : action = [w \in Worker |-> a]
    /\ held = [w \in Worker |-> Fresh]
    /\ blocked = {}
    /\ consumed = [j \in Job |-> 0]
    /\ admits = [k \in Job \X Action \X Count |-> 0]

Go(w, step) == pc' = [pc EXCEPT ![w] = step]
Hold(w, r) == held' = [held EXCEPT ![w] = r]
Save(w, r) == row' = [row EXCEPT ![JobOf[w]] = r]
Mine(w) == row[JobOf[w]]

\* Mutant: the session is billed before the deadline is looked at.
DispatchLateBilled(w) ==
    /\ pc[w] = "idle" /\ Mine(w).status = "running" /\ JobOf[w] \in expired /\ used < MaxCalls
    /\ Save(w, [Mine(w) EXCEPT !.status = "timed_out"])
    /\ used' = used + 1
    /\ UNCHANGED <<service, evidence, expired, pc, action, held, history>>

\* consume_dispatch_budget finds the deadline passed, and commits that before it raises.
DispatchLate(w) ==
    /\ pc[w] = "idle" /\ Mine(w).status = "running" /\ JobOf[w] \in expired
    /\ Save(w, [Mine(w) EXCEPT !.status = "timed_out"])
    /\ UNCHANGED <<used, service, evidence, expired, pc, action, held, history>>

\* Mutant: the session's ceiling is not looked at.
MayDispatchUncapped(w) == Mine(w).status = "running" /\ JobOf[w] \notin expired /\ Mine(w).budget > 0

\* consume_dispatch_budget refuses nothing.
MayDispatch(w) ==
    /\ Mine(w).status = "running" /\ JobOf[w] \notin expired
    /\ Mine(w).budget > 0 /\ used < MaxCalls

\* consume_dispatch_budget: one transaction bills the job and the session.
Dispatch(w, a) ==
    /\ pc[w] = "idle" /\ MayDispatch(w)
    /\ LET spent == [Mine(w) EXCEPT !.budget = @ - 1] IN Save(w, spent) /\ Hold(w, spent)
    /\ used' = used + 1
    /\ consumed' = [consumed EXCEPT ![JobOf[w]] = @ + 1]
    /\ action' = [action EXCEPT ![w] = a]
    /\ Go(w, "gate")
    /\ UNCHANGED <<service, evidence, expired, blocked, admits>>

\* Mutant: off by one, an action that ran with one record less is refused too.
EagerRefuse(w) ==
    /\ pc[w] = "gate"
    /\ held[w].seen[action[w]] >= evidence - 1
    /\ blocked' = blocked \union {<<JobOf[w], action[w], evidence>>}
    /\ Go(w, "idle")
    /\ UNCHANGED <<store, action, held, consumed, admits>>

\* _dispatch_loop_gate refuses a repeat of an action that ran when the session
\* had as much evidence as now; it journals the refusal and keeps the bill.
Refuse(w) ==
    /\ pc[w] = "gate"
    /\ held[w].seen[action[w]] >= evidence
    /\ blocked' = blocked \union {<<JobOf[w], action[w], evidence>>}
    /\ Go(w, "idle")
    /\ UNCHANGED <<store, action, held, consumed, admits>>

\* It lets any other action through, and will note it with the evidence it counted.
Admit(w) ==
    /\ pc[w] = "gate"
    /\ held[w].seen[action[w]] < evidence
    /\ Hold(w, [held[w] EXCEPT !.seen[action[w]] = evidence])
    /\ Go(w, "track")
    /\ UNCHANGED <<store, action, history>>

\* Mutant: the gate's write bills the slot again.
RebillingTrack(w) ==
    /\ pc[w] = "track"
    /\ Save(w, [held[w] EXCEPT !.budget = IF @ = 0 THEN 0 ELSE @ - 1])
    /\ admits' = [admits EXCEPT ![<<JobOf[w], action[w], held[w].seen[action[w]]>>] = @ + 1]
    /\ Go(w, "beat")
    /\ UNCHANGED <<used, service, evidence, expired, action, held, blocked, consumed>>

\* It writes the row it got from the transaction, with the action noted.
Track(w) ==
    /\ pc[w] = "track"
    /\ Save(w, held[w])
    /\ admits' = [admits EXCEPT ![<<JobOf[w], action[w], held[w].seen[action[w]]>>] = @ + 1]
    /\ Go(w, "beat")
    /\ UNCHANGED <<used, service, evidence, expired, action, held, blocked, consumed>>

\* heartbeat_job, after a dispatch or as the start of a control tool's call: it
\* reads the row, whatever its status, ...
BeatRead(w) ==
    /\ pc[w] \in {"beat", "idle"}
    /\ Hold(w, Mine(w))
    /\ Go(w, "save_beat")
    /\ UNCHANGED <<store, action, history>>

\* ... and writes it with a new last_heartbeat_at; the tool itself runs after that.
BeatSave(w) ==
    /\ pc[w] = "save_beat"
    /\ Save(w, held[w])
    /\ Go(w, "idle")
    /\ UNCHANGED <<used, service, evidence, expired, action, held, history>>

\* record_evidence: _enforce_live_job reads the job, which must be running ...
RecordRead(w) ==
    /\ pc[w] = "idle" /\ Mine(w).status = "running"
    /\ Hold(w, Mine(w))
    /\ Go(w, IF JobOf[w] \in expired THEN "time_out" ELSE "record")
    /\ UNCHANGED <<store, action, history>>

\* ... and writes the row it read as timed out if the deadline has passed.
TimeOut(w) ==
    /\ pc[w] = "time_out"
    /\ Save(w, [held[w] EXCEPT !.status = "timed_out"])
    /\ Go(w, "idle")
    /\ UNCHANGED <<used, service, evidence, expired, action, held, history>>

\* save_evidence adds the record, unless its identity is in the ledger already.
RecordSave(w) ==
    /\ pc[w] = "record"
    /\ evidence' \in {evidence, evidence + 1} /\ evidence' <= MaxEvidence
    /\ Go(w, "idle")
    /\ UNCHANGED <<row, used, service, expired, action, held, history>>

\* Any other service call of the session: it reads the session row ...
SessionRead ==
    /\ service = Unread
    /\ service' = used
    /\ UNCHANGED <<row, used, evidence, expired, pc, action, held, history>>

\* ... and saves it whole, tool_calls_used included (unless it is refused, or dies).
SessionSave ==
    /\ service # Unread
    /\ used' \in {used, service}
    /\ service' = Unread
    /\ UNCHANGED <<row, evidence, expired, pc, action, held, history>>

Expire(j) ==
    /\ j \notin expired
    /\ expired' = expired \union {j}
    /\ UNCHANGED <<row, used, service, evidence, pc, action, held, history>>

\* The call dies with its process.
Crash(w) ==
    /\ pc[w] # "idle"
    /\ Go(w, "idle")
    /\ UNCHANGED <<store, action, held, history>>

Next ==
    \/ \E w \in Worker : \/ \E a \in Action : Dispatch(w, a)
                         \/ DispatchLate(w) \/ Refuse(w) \/ Admit(w) \/ Track(w)
                         \/ BeatRead(w) \/ BeatSave(w)
                         \/ RecordRead(w) \/ TimeOut(w) \/ RecordSave(w) \/ Crash(w)
    \/ SessionRead \/ SessionSave
    \/ \E j \in Job : Expire(j)

Spec == Init /\ [][Next]_vars

-----------------------------------------------------------------------------
(* Properties *)

TypeOK ==
    /\ row \in [Job -> JobRow]
    /\ used \in 0..MaxCalls /\ service \in 0..MaxCalls \union {Unread} /\ evidence \in Count /\ expired \subseteq Job
    /\ pc \in [Worker -> Steps] /\ action \in [Worker -> Action]
    /\ held \in [Worker -> JobRow]
    /\ blocked \subseteq Job \X Action \X Count
    /\ consumed \in [Job -> Nat]
    /\ admits \in [Job \X Action \X Count -> Nat]

\* "Only exact repeats with zero evidence growth are refused": whatever calls
\* overlap and whatever writes of the job row are lost, a refused action of a
\* job had been let through when the session had exactly as much evidence.
RefusalsAreRepeats == \A refusal \in blocked : admits[refusal] > 0

\* A lost write of a job's row never blocks a fresh action: what the row has left is
\* at least what the job was not billed, whatever calls of the job save old rows (the
\* gate's write, heartbeats, timeouts).  It may be more: such a write gives slots back.
NoSlotTaken == \A j \in Job : Budget <= consumed[j] + row[j].budget

\* The dispatches billed, those of a job numbered from 1.
Billed == UNION {{j} \X (1..consumed[j]) : j \in Job}

\* The session's counter never runs ahead of what its jobs were billed: the
\* ceiling refuses no call early, though other calls save the row from old reads.
SessionNotOvercharged == used <= Cardinality(Billed)

=============================================================================
