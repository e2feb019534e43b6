------------------------------- MODULE Bridge -------------------------------
(***************************************************************************)
(* One run between the extension and its bridge process.  The client sends *)
(* one JSON line per call and correlates the answers by id; tool calls     *)
(* hold one of a few permits.  The bridge reads line after line on its     *)
(* main thread and runs tool calls on a pool.  A timeout, a failed write   *)
(* or the death of the bridge recycles it: every pending call fails and    *)
(* the next one spawns a new bridge, which knows nothing of the run.  What *)
(* outlives a bridge is the run's row in runs.sqlite.                      *)
(***************************************************************************)
EXTENDS Integers, Sequences, FiniteSets

CONSTANTS
    Tool,        \* tool calls of the run
    Note,        \* observability events of the run
    Permits,     \* tool calls in flight, and threads of the bridge's pool
    MaxSpawns,   \* bound of bridge processes
    MaxLosses,   \* bound of bridges lost to something outside the run
    MaxFaults    \* bound of failing storage operations

Start == "agent_start"
End   == "agent_end"
Abort == {"abort", "second_abort"}

ASSUME BridgeAssumption ==
    /\ IsFiniteSet(Tool)
    /\ Tool \cap (Note \cup Abort \cup {Start, End}) = {}
    /\ Note \cap (Abort \cup {Start, End}) = {}
    /\ Permits \in Nat \ {0} /\ MaxSpawns \in Nat /\ MaxLosses \in Nat /\ MaxFaults \in Nat

Request == Tool \cup Note \cup Abort \cup {Start, End}

VARIABLES
    call,        \* client: how far each call is
    permits, permitQueue,
    proc,        \* client: the present bridge, numbered by spawns, 0 is none
    spawns, closed,
    term,        \* client: termination of the run after a tool timed out
    termChild,   \* client: the bridge the timed-out call was sent to
    endFails,    \* agent_end was sent as a failure
    bridge,      \* the present bridge process
    row,         \* the run's row in runs.sqlite
    owner,       \* the bridge that inserted the row
    losses, faults

client == <<call, permits, permitQueue>>
life   == <<proc, spawns, closed>>
ending == <<term, termChild, endFails>>
store  == <<row, owner, faults>>
vars   == <<client, life, ending, bridge, store, losses>>

NewBridge ==
    [stdin |-> <<>>, main |-> "idle", session |-> FALSE, recorder |-> "none",
     fut |-> [t \in Tool |-> "none"]]

\* A bridge: what it has yet to read, what its main thread waits to end, whether
\* it knows the run, its recorder, its tool calls.
Process ==
    [stdin : Seq(Request), main : {"idle", "late"} \cup Abort \cup {End}, session : BOOLEAN,
     recorder : {"none", "on", "off"},
     fut : [Tool -> {"none", "queued", "running", "done", "cancelled"}]]

CallStates == {"new", "waiting", "granted", "pending", "terminating", "ok", "error"}
Holding == {"granted", "pending", "terminating"}
Settled == {"ok", "error"}
Pending == {q \in Request : call[q] = "pending"}
Terminated == term # "none"
Unfinished == {t \in Tool : bridge.fut[t] \in {"queued", "running"}}

TypeOK ==
    /\ call \in [Request -> CallStates]
    /\ permits \in Int /\ (~closed => permits \in 0..Permits)
    /\ permitQueue \in Seq(Tool)
    /\ proc \in 0..MaxSpawns /\ spawns \in 0..MaxSpawns /\ closed \in BOOLEAN
    /\ term \in {"none", "first", "second", "over"} /\ termChild \in 0..MaxSpawns
    /\ endFails \in BOOLEAN
    /\ bridge \in Process
    /\ row \in {"none", "open", "completed", "failed"} /\ owner \in 0..MaxSpawns
    /\ losses \in 0..MaxLosses /\ faults \in 0..MaxFaults

Init ==
    /\ call = [q \in Request |-> "new"]
    /\ permits = Permits /\ permitQueue = <<>>
    /\ proc = 0 /\ spawns = 0 /\ closed = FALSE
    /\ term = "none" /\ termChild = 0 /\ endFails = FALSE
    /\ bridge = NewBridge
    /\ row = "none" /\ owner = 0 /\ faults = 0 /\ losses = 0

-----------------------------------------------------------------------------
(* The client.                                                             *)

(* Mutant: a call that never acquired a permit releases one, too.          *)
HoldersOfAny(S) == S \cap Tool

Holders(S) == {t \in S \cap Tool : call[t] \in Holding}

(* Mutant: a permit given back wakes nobody.                               *)
SettleWakesNobody(S, outcome) ==
    /\ call' = [q \in Request |-> IF q \in S THEN outcome ELSE call[q]]
    /\ permits' = permits + Cardinality(Holders(S))
    /\ UNCHANGED permitQueue

(* Calls end with the same outcome and give their permits back, each to    *)
(* the call that has waited longest.                                       *)
Settle(S, outcome) ==
    LET freed == Cardinality(Holders(S))
        woken == IF freed < Len(permitQueue) THEN freed ELSE Len(permitQueue)
    IN  /\ call' = [q \in Request |->
                       IF q \in S THEN outcome
                       ELSE IF \E i \in 1..woken : permitQueue[i] = q THEN "granted"
                       ELSE call[q]]
        /\ permitQueue' = SubSeq(permitQueue, woken + 1, Len(permitQueue))
        /\ permits' = permits + freed - woken

(* recycle, markDead: the bridge is killed, its calls and those in S fail. *)
Recycle(S) ==
    /\ proc' = 0 /\ bridge' = NewBridge
    /\ Settle(Pending \cup S, "error")
    /\ UNCHANGED <<spawns, closed>>

(* ensureBridge and the write of the line, with the ways both can fail.    *)
Send(q) ==
    \/ /\ ~closed
       /\ proc # 0 \/ spawns < MaxSpawns
       /\ proc' = IF proc = 0 THEN spawns + 1 ELSE proc
       /\ spawns' = IF proc = 0 THEN spawns + 1 ELSE spawns
       /\ bridge' = [bridge EXCEPT !.stdin = Append(@, q)]
       /\ call' = [call EXCEPT ![q] = "pending"]
       /\ UNCHANGED <<closed, permits, permitQueue>>
    \/ /\ proc = 0
       /\ Settle({q}, "error")
       /\ UNCHANGED <<life, bridge>>
    \/ proc # 0 /\ Recycle({q})

CallTool(t) ==
    /\ call[t] = "new" /\ call[Start] # "new" /\ call[End] = "new"
    /\ CASE Terminated -> Settle({t}, "error")
         [] ~Terminated /\ permits > 0 ->
              /\ call' = [call EXCEPT ![t] = "granted"]
              /\ permits' = permits - 1
              /\ UNCHANGED permitQueue
         [] OTHER ->
              /\ call' = [call EXCEPT ![t] = "waiting"]
              /\ permitQueue' = Append(permitQueue, t)
              /\ UNCHANGED permits
    /\ UNCHANGED <<life, ending, bridge, store, losses>>

(* Past acquire: the run may have been terminated meanwhile.               *)
Granted(t) ==
    /\ call[t] = "granted"
    /\ IF Terminated THEN Settle({t}, "error") /\ UNCHANGED <<life, bridge>> ELSE Send(t)
    /\ UNCHANGED <<ending, store, losses>>

CallStart ==
    /\ call[Start] = "new"
    /\ Send(Start)
    /\ UNCHANGED <<ending, store, losses>>

CallNote(q) ==
    /\ q \in Note
    /\ call[q] = "new" /\ call[Start] # "new"
    /\ Send(q)
    /\ UNCHANGED <<ending, store, losses>>

(* The agent may end while tool calls are under way (an interrupted turn); *)
(* the end of a terminated run is rewritten to a failure.                  *)
CallEnd ==
    /\ call[End] = "new" /\ call[Start] # "new"
    /\ endFails' = Terminated
    /\ Send(End)
    /\ UNCHANGED <<term, termChild, store, losses>>

CallAbort(q) ==
    /\ call[q] = "new"
    /\ \/ term = "first" /\ q = "abort"
       \/ term = "second" /\ q = "second_abort"
    /\ Send(q)
    /\ UNCHANGED <<ending, store, losses>>

(* Mutant: a tool call that times out just fails.                          *)
ToolTimeoutFails(t) ==
    /\ call[t] = "pending"
    /\ Settle({t}, "error")
    /\ UNCHANGED <<life, ending, bridge, store, losses>>

(* A tool call that times out begins the termination of the run, or joins  *)
(* the one that is going on.                                               *)
ToolTimeout(t) ==
    /\ call[t] = "pending"
    /\ IF term = "over"
         THEN Settle({t}, "error")
         ELSE call' = [call EXCEPT ![t] = "terminating"] /\ UNCHANGED <<permits, permitQueue>>
    /\ IF term = "none" THEN term' = "first" /\ termChild' = proc ELSE UNCHANGED <<term, termChild>>
    /\ UNCHANGED <<endFails, life, bridge, store, losses>>

(* agent_end that times out recycles the bridge, another event or an abort *)
(* just fails.                                                             *)
Timeout(q) ==
    /\ q \notin Tool
    /\ call[q] = "pending"
    /\ IF q = End
         THEN Recycle({q})
         ELSE Settle({q}, "error") /\ UNCHANGED <<life, bridge>>
    /\ UNCHANGED <<ending, store, losses>>

(* The first abort is back: the bridge of the timed-out call goes in any   *)
(* case, and what was not confirmed is asked of a new one.                 *)
AfterAbort ==
    /\ term = "first" /\ call["abort"] \in Settled
    /\ term' = IF call["abort"] = "ok" THEN "over" ELSE "second"
    /\ LET back == IF call["abort"] = "ok" THEN {t \in Tool : call[t] = "terminating"} ELSE {}
       IN  IF termChild = proc
             THEN Recycle(back)
             ELSE Settle(back, "error") /\ UNCHANGED <<life, bridge>>
    /\ UNCHANGED <<termChild, endFails, store, losses>>

AfterSecondAbort ==
    /\ term = "second" /\ call["second_abort"] \in Settled
    /\ term' = "over"
    /\ Settle({t \in Tool : call[t] = "terminating"}, "error")
    /\ UNCHANGED <<termChild, endFails, life, bridge, store, losses>>

(* Session shutdown: the bridge is recycled, queued calls are let through  *)
(* and fail for want of one.                                               *)
Close ==
    /\ ~closed
    /\ closed' = TRUE
    /\ call' = [q \in Request |-> CASE q \in Pending -> "error"
                                    [] call[q] = "waiting" -> "granted"
                                    [] OTHER -> call[q]]
    /\ permits' = Permits - Len(permitQueue) + Cardinality(Pending \cap Tool)
    /\ permitQueue' = <<>>
    /\ proc' = 0 /\ bridge' = NewBridge
    /\ UNCHANGED <<spawns, ending, store, losses>>
-----------------------------------------------------------------------------
(* The bridge.                                                             *)

(* An answer reaches its call unless the call has given up.                *)
Respond(q, outcome) ==
    IF call[q] = "pending" THEN Settle({q}, outcome) ELSE UNCHANGED client

Reads(q) == bridge.main = "idle" /\ bridge.stdin # <<>> /\ q = Head(bridge.stdin)
Rest == Tail(bridge.stdin)

(* _handle_tool_call: submitted when the run is known.                     *)
ReadTool(t) ==
    /\ Reads(t)
    /\ IF bridge.session
         THEN bridge' = [bridge EXCEPT !.stdin = Rest, !.fut[t] = "queued"] /\ UNCHANGED client
         ELSE bridge' = [bridge EXCEPT !.stdin = Rest] /\ Respond(t, "error")
    /\ UNCHANGED <<life, ending, store, losses>>

(* _run_tool_call looks its session up when a thread takes it.             *)
StartTool(t) ==
    /\ bridge.fut[t] = "queued"
    /\ Cardinality({u \in Tool : bridge.fut[u] = "running"}) < Permits
    /\ IF bridge.session
         THEN bridge' = [bridge EXCEPT !.fut[t] = "running"] /\ UNCHANGED client
         ELSE bridge' = [bridge EXCEPT !.fut[t] = "done"] /\ Respond(t, "error")
    /\ UNCHANGED <<life, ending, store, losses>>

FinishTool(t) ==
    /\ bridge.fut[t] = "running"
    /\ bridge' = [bridge EXCEPT !.fut[t] = "done"]
    /\ Respond(t, "ok")
    /\ UNCHANGED <<life, ending, store, losses>>

(* _recorder_for: the first event a bridge sees of the run opens the       *)
(* recorder, which inserts the row; when that fails the recorder is off.   *)
OpenRecorder(inserted) ==
    IF bridge.recorder # "none"
      THEN bridge.recorder
      ELSE IF inserted THEN "on" ELSE "off"

ReadEvent(q) ==
    /\ q \in Note \cup {Start}
    /\ Reads(q)
    /\ \E fault \in BOOLEAN :
          LET opens    == bridge.recorder = "none"
              inserted == opens /\ row = "none" /\ ~fault
          IN  /\ fault => opens /\ faults < MaxFaults
              /\ faults' = IF fault THEN faults + 1 ELSE faults
              /\ row' = IF inserted THEN "open" ELSE row
              /\ owner' = IF inserted THEN proc ELSE owner
              /\ bridge' = [bridge EXCEPT !.stdin = Rest,
                                         !.session = @ \/ q = Start,
                                         !.recorder = OpenRecorder(inserted)]
    /\ Respond(q, "ok")
    /\ UNCHANGED <<life, ending, losses>>

(* agent_end and abort_run wait for the run's tool calls, for a while.     *)
ReadLast(q) ==
    /\ q \in Abort \cup {End}
    /\ Reads(q)
    /\ bridge' = [bridge EXCEPT !.stdin = Rest, !.main = q]
    /\ UNCHANGED <<client, life, ending, store, losses>>

(* Mutant: a call that did not start in time is not cancelled.             *)
EvictedOnly == [bridge EXCEPT !.main = "idle", !.session = FALSE, !.recorder = "none"]

(* _drain_futures: calls that did not start in time never will, nor answer.*)
Cancelled ==
    [t \in Tool |-> IF bridge.fut[t] = "queued" THEN "cancelled" ELSE bridge.fut[t]]

(* The bridge without the state of the run.                                *)
Evicted ==
    [bridge EXCEPT !.main = "idle", !.session = FALSE, !.recorder = "none", !.fut = Cancelled]

(* Mutant: the orphan repair overwrites a row that is terminal already.    *)
RepairAlways(r) == IF r = "none" THEN r ELSE "failed"

(* finalize_failed_run on a row: only an open one is updated.              *)
Repaired(r) == IF r = "open" THEN "failed" ELSE r

(* _teardown_failed_run: the recorder completes the row as failed, and the *)
(* repair then makes sure; either may meet a storage error.                *)
Teardown(fault, repairFault) ==
    /\ fault = 1 => bridge.recorder = "on"
    /\ faults' = faults + fault + repairFault /\ faults' <= MaxFaults
    /\ LET left == IF bridge.recorder = "on" /\ fault = 0 THEN "failed" ELSE row
       IN  row' = IF repairFault = 0 THEN Repaired(left) ELSE left

(* Mutant: the end of the run does not wait for its tool calls.            *)
DrainedAlways == TRUE

Drained == Unfinished = {}

(* Mutant: agent_end is taken for a normal end whatever it says.           *)
NeverFailure == FALSE

(* _is_explicit_agent_failure, of the agent_end being handled.             *)
IsFailure == endFails

(* _complete_agent_end: every call is done; storage errors go unnoticed.   *)
Complete ==
    /\ bridge.main = End /\ ~IsFailure
    /\ Drained
    /\ \E fault \in {0, 1} :
          /\ fault = 1 => bridge.recorder = "on"
          /\ faults' = faults + fault /\ faults' <= MaxFaults
          /\ row' = IF bridge.recorder = "on" /\ fault = 0 THEN "completed" ELSE row
    /\ bridge' = Evicted
    /\ Respond(End, "ok")
    /\ UNCHANGED <<life, ending, owner, losses>>

(* abort_run, and agent_end sent as a failure: torn down after the wait.   *)
(* An abort is answered with whether the row is known to be closed.        *)
FailRun(q) ==
    /\ q \in Abort \/ (q = End /\ IsFailure)
    /\ bridge.main = q
    /\ bridge' = Evicted
    /\ \E fault, repairFault \in {0, 1} :
          /\ Teardown(fault, repairFault)
          /\ Respond(q, IF q = End \/ (repairFault = 0 /\ row' # "none") THEN "ok" ELSE "error")
    /\ UNCHANGED <<life, ending, owner, losses>>

(* agent_end whose wait runs out goes on as a failure: what did not start  *)
(* is cancelled, the rest is waited for once more.                         *)
DrainExpires ==
    /\ bridge.main = End /\ ~IsFailure
    /\ ~Drained
    /\ bridge' = [bridge EXCEPT !.main = "late", !.fut = Cancelled]
    /\ UNCHANGED <<client, life, ending, store, losses>>

(* It is then torn down, and its answer makes the client recycle.          *)
FailLate ==
    /\ bridge.main = "late"
    /\ \E fault, repairFault \in {0, 1} : Teardown(fault, repairFault)
    /\ Recycle({End})
    /\ UNCHANGED <<ending, owner, losses>>

(* The bridge dies, or a research call of the Director on the same bridge  *)
(* times out and recycles it.                                              *)
BridgeLost ==
    /\ proc # 0 /\ losses < MaxLosses
    /\ losses' = losses + 1
    /\ Recycle({})
    /\ UNCHANGED <<ending, store>>

-----------------------------------------------------------------------------
ClientStep ==
    \/ \E t \in Tool : Granted(t) \/ ToolTimeout(t)
    \/ \E q \in Request : CallAbort(q) \/ Timeout(q)
    \/ AfterAbort \/ AfterSecondAbort

BridgeStep ==
    \/ \E t \in Tool : ReadTool(t) \/ StartTool(t) \/ FinishTool(t)
    \/ \E q \in Request : ReadEvent(q) \/ ReadLast(q) \/ FailRun(q)
    \/ Complete \/ DrainExpires \/ FailLate

Next ==
    \/ CallStart \/ CallEnd \/ Close
    \/ \E t \in Tool : CallTool(t)
    \/ \E q \in Request : CallNote(q)
    \/ ClientStep \/ BridgeStep \/ BridgeLost

Spec == Init /\ [][Next]_vars

(* Only the client's own event loop is fair: its timers fire and its       *)
(* continuations run.  A bridge may hang, die or answer late.              *)
FairSpec == Spec /\ WF_vars(ClientStep)

-----------------------------------------------------------------------------
(* The permit of a call is out until the bridge that may still be running  *)
(* it has answered or is gone (callBridge awaits the termination before it *)
(* releases): a bridge never has more calls than threads.                  *)
PoolNotOversubscribed == Cardinality(Unfinished) <= Permits

(* No permit is lost or counted twice, and a call waits only when all are  *)
(* out ("releases permits").                                               *)
PermitsConserved ==
    ~closed => /\ permits + Cardinality({t \in Tool : call[t] \in Holding}) = Permits
               /\ permitQueue # <<>> => permits = 0

(* "agent_end uses a bounded drain for its run's submitted calls before    *)
(* completing": no call of a completed run is still to run.                *)
CompletedRunQuiet == row = "completed" => Unfinished = {}

(* A call the bridge accepted finds its session when a thread takes it.    *)
AcceptedCallHasSession ==
    \A t \in Tool : bridge.fut[t] = "queued" => bridge.session

(* "Preserves already-terminal runs": the row of a run is closed once,     *)
(* whichever of a late end, an abort and its repeat on a new bridge come.  *)
TerminalRowStays ==
    [][(row \in {"completed", "failed"}) => (row' = row)]_vars

(* An acknowledged end leaves no open row.  Of a run whose tool timed out  *)
(* that is so whichever bridges it went through, unless the repair fails   *)
(* (and the live recorder before it: _teardown_failed_run, "never trusted  *)
(* on its own"); of any other run when no storage operation failed and the *)
(* bridge is the one that opened the row.                                  *)
EndedRunClosed ==
    [][(call[End] = "pending" /\ call'[End] = "ok" /\ row' = "open")
         => IF endFails
              THEN faults' - faults = IF bridge.recorder = "on" THEN 2 ELSE 1
              ELSE faults' > 0 \/ owner # proc]_vars

(* Every call comes back, whatever the bridge does: its timer fires, the   *)
(* termination it waits for ends, a permit it waits for comes free.  (No   *)
(* call is made twice, so in the end none is under way.)                   *)
CallsReturn == <>[](\A q \in Request : call[q] \in Settled \cup {"new"})
=============================================================================
