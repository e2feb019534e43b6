--------------------------- MODULE ThesisMonitor ---------------------------
(***************************************************************************)
(* Thesis monitoring: processes ("tickers": the worker's sleep loop, a CLI *)
(* tick) repeat monitor.tick over one thesis directory.  A tick reads the  *)
(* checkpoint, queries the sources from their cursors, writes one pending  *)
(* trigger per new reference, runs the pending triggers oldest first, each *)
(* in a child OMP process, and writes the checkpoint back.  Every read and *)
(* write of a file takes the thesis lock by itself; a tick does not.       *)
(***************************************************************************)
EXTENDS Integers, Sequences, FiniteSets, FiniteSetsExt

CONSTANTS
    Ticker,        \* processes that tick the thesis
    Source,        \* wired sources of its live rules
    Event,         \* what the sources may publish about the thesis
    SourceOf,      \* [Event -> Source]
    Invalidating,  \* events whose summary names one of the thesis' invalidators
    RunId,         \* tells the runs of one trigger apart (used again once nothing refers to it)
    Reviews,       \* whether the deep review rule is among the live ones
    Limit,         \* most events one query returns
    ReviewDays,    \* days between deep reviews
    MaxDay,        \* bound of the clock
    MaxWraps,      \* bound of invalidator references about invalidators
    MaxCrashes,    \* bound of ticker crashes
    Statuses       \* statuses the owner may give the thesis

ASSUME MonitorAssumption ==
    /\ SourceOf \in [Event -> Source]
    /\ Invalidating \subseteq Event
    /\ Reviews \in BOOLEAN
    /\ Limit \in Nat \ {0} /\ ReviewDays \in Nat /\ MaxDay \in Nat \ {0}
    /\ MaxWraps \in Nat /\ MaxCrashes \in Nat
    /\ Statuses \subseteq {"active", "paused", "closed"}

VARIABLES
    day,         \* today
    status,      \* thesis.yaml
    stamp,       \* the day an event bears, 0 until its source shows it
    dropped,     \* events that some query left out for its limit
    inbox,       \* triggers in creation order
    checkpoint,  \* checkpoint.yaml: a cursor per source, the last review
    alive,       \* runs whose child was not reaped: <<trigger, run>>
    journal,     \* runs with a journal entry
    recorded,    \* runs the recorder holds as complete
    crashes,
    pc, cutoff, snap, asked, answered, got, todo, made, queue, run

files   == <<inbox, checkpoint>>
world   == <<day, status, stamp>>
omp     == <<alive, journal, recorded>>
local   == <<cutoff, snap, asked, answered, got, todo, made, queue, run>>
vars    == <<world, dropped, files, omp, crashes, pc, local>>

Days == 0..MaxDay
NoRun == "none"

(* A canonical reference: of an event, of the review of a day, or of an    *)
(* invalidator hit on another reference (wraps counts the nesting).        *)
EventRef(e)  == [about |-> e, wraps |-> 0]
ReviewRef(d) == [about |-> <<"review", d>>, wraps |-> 0]
Wrap(ref)    == [ref EXCEPT !.wraps = @ + 1]
Ref == [about : Event \cup {<<"review", d>> : d \in Days}, wraps : 0..MaxWraps]

Trigger == [ref : Ref, status : {"pending", "processed"}, run : RunId \cup {NoRun}]
RefsOf(triggers) == {triggers[i].ref : i \in DOMAIN triggers}
IsPending(i) == inbox[i].status = "pending"
Pending == {i \in DOMAIN inbox : IsPending(i)}

\* The trigger a tick is at: the oldest it listed and is not done with.
First(w) == Min(queue[w])

Checkpoint == [cursor : [Source -> Days], review : Days]
NewCheckpoint == [cursor |-> [s \in Source |-> 0], review |-> 0]
NoCutoff == [day |-> 0, upto |-> 0]

TypeOK ==
    /\ day \in Days /\ status \in {"active", "paused", "closed"}
    /\ stamp \in [Event -> Days] /\ dropped \subseteq Event
    /\ inbox \in Seq(Trigger)
    /\ checkpoint \in Checkpoint
    /\ alive \subseteq (DOMAIN inbox) \X RunId
    /\ journal \subseteq (DOMAIN inbox) \X RunId
    /\ recorded \subseteq (DOMAIN inbox) \X RunId
    /\ crashes \in 0..MaxCrashes
    /\ pc \in [Ticker -> {"idle", "load", "query", "create", "pending", "omp", "ack", "save", "stopped"}]
    /\ cutoff \in [Ticker -> [day : Days, upto : Nat]]
    /\ snap \in [Ticker -> Checkpoint]
    /\ asked \in [Ticker -> SUBSET Source] /\ answered \in [Ticker -> SUBSET Source]
    /\ got \in [Ticker -> SUBSET Event]
    /\ todo \in [Ticker -> SUBSET Ref]
    /\ made \in [Ticker -> BOOLEAN]
    /\ queue \in [Ticker -> SUBSET (DOMAIN inbox)]
    /\ run \in [Ticker -> RunId \cup {NoRun}]

Init ==
    /\ day = 1 /\ status = "active"
    /\ stamp = [e \in Event |-> 0] /\ dropped = {}
    /\ inbox = <<>> /\ checkpoint = NewCheckpoint
    /\ alive = {} /\ journal = {} /\ recorded = {} /\ crashes = 0
    /\ pc = [w \in Ticker |-> "idle"]
    /\ cutoff = [w \in Ticker |-> NoCutoff]
    /\ snap = [w \in Ticker |-> NewCheckpoint]
    /\ asked = [w \in Ticker |-> {}] /\ answered = [w \in Ticker |-> {}]
    /\ got = [w \in Ticker |-> {}] /\ todo = [w \in Ticker |-> {}]
    /\ made = [w \in Ticker |-> FALSE]
    /\ queue = [w \in Ticker |-> {}]
    /\ run = [w \in Ticker |-> NoRun]

(* What a tick holds in memory is gone when it ends.                       *)
Forget(w) ==
    /\ cutoff' = [cutoff EXCEPT ![w] = NoCutoff]
    /\ snap' = [snap EXCEPT ![w] = NewCheckpoint]
    /\ asked' = [asked EXCEPT ![w] = {}]
    /\ answered' = [answered EXCEPT ![w] = {}]
    /\ got' = [got EXCEPT ![w] = {}]
    /\ todo' = [todo EXCEPT ![w] = {}]
    /\ made' = [made EXCEPT ![w] = FALSE]
    /\ queue' = [queue EXCEPT ![w] = {}]
    /\ run' = [run EXCEPT ![w] = NoRun]

-----------------------------------------------------------------------------
(* The outside: the clock, the sources, the thesis' owner.                 *)

NextDay ==
    /\ day < MaxDay
    /\ day' = day + 1
    /\ UNCHANGED <<status, stamp, dropped, files, omp, crashes, pc, local>>

(* A source shows an event on the day the event bears.                     *)
Publish(e) ==
    /\ stamp[e] = 0
    /\ stamp' = [stamp EXCEPT ![e] = day]
    /\ UNCHANGED <<day, status, dropped, files, omp, crashes, pc, local>>

(* pause_thesis, resume_thesis, close_thesis: a closed thesis stays so.    *)
SetStatus(s) ==
    /\ status # "closed"
    /\ s # status
    /\ status' = s
    /\ UNCHANGED <<day, stamp, dropped, files, omp, crashes, pc, local>>

-----------------------------------------------------------------------------
(* The tick.                                                               *)

(* Mutant: the cutoff is the end of the next day.                          *)
GateAhead(w) ==
    /\ pc[w] = "idle"
    /\ status = "active"
    /\ pc' = [pc EXCEPT ![w] = "load"]
    /\ cutoff' = [cutoff EXCEPT ![w] = [day |-> day + 1, upto |-> Len(inbox)]]
    /\ UNCHANGED <<world, dropped, files, omp, crashes, snap, asked, answered, got, todo, made, queue, run>>

(* _tick_gate: a paused thesis makes the tick a no-op, a closed one ends   *)
(* the loop.  The data cutoff is the present moment: its day, and the      *)
(* triggers created up to it.                                              *)
Gate(w) ==
    /\ pc[w] = "idle"
    /\ status # "paused"
    /\ IF status = "closed"
         THEN pc' = [pc EXCEPT ![w] = "stopped"] /\ UNCHANGED cutoff
         ELSE /\ pc' = [pc EXCEPT ![w] = "load"]
              /\ cutoff' = [cutoff EXCEPT ![w] = [day |-> day, upto |-> Len(inbox)]]
    /\ UNCHANGED <<world, dropped, files, omp, crashes, snap, asked, answered, got, todo, made, queue, run>>

Load(w) ==
    /\ pc[w] = "load"
    /\ pc' = [pc EXCEPT ![w] = "query"]
    /\ snap' = [snap EXCEPT ![w] = checkpoint]
    /\ asked' = [asked EXCEPT ![w] = Source]
    /\ answered' = [answered EXCEPT ![w] = {}]
    /\ got' = [got EXCEPT ![w] = {}]
    /\ made' = [made EXCEPT ![w] = FALSE]
    /\ UNCHANGED <<world, dropped, files, omp, crashes, cutoff, todo, queue, run>>

(* Mutant: the window begins after the cursor's day.                       *)
WindowAfter(w, s) ==
    {e \in Event : /\ SourceOf[e] = s
                   /\ stamp[e] # 0
                   /\ snap[w].cursor[s] < stamp[e]
                   /\ stamp[e] <= cutoff[w].day}

(* What a source shows from the cursor's day to the cutoff's, both days in.*)
Window(w, s) ==
    {e \in Event : /\ SourceOf[e] = s
                   /\ stamp[e] # 0
                   /\ snap[w].cursor[s] <= stamp[e]
                   /\ stamp[e] <= cutoff[w].day}

(* A query returns what its window holds, up to the limit; which events    *)
(* the limit leaves out is the source's choice.                            *)
QueryAnswers(w, s) ==
    /\ pc[w] = "query"
    /\ s \in asked[w]
    /\ \E seen \in SUBSET Window(w, s) :
          /\ Cardinality(seen) = Min({Limit, Cardinality(Window(w, s))})
          /\ got' = [got EXCEPT ![w] = @ \cup seen]
          /\ dropped' = dropped \cup (Window(w, s) \ seen)
    /\ asked' = [asked EXCEPT ![w] = @ \ {s}]
    /\ answered' = [answered EXCEPT ![w] = @ \cup {s}]
    /\ UNCHANGED <<world, files, omp, crashes, pc, cutoff, snap, todo, made, queue, run>>

(* A source that raises is skipped for this tick.                          *)
QueryFails(w, s) ==
    /\ pc[w] = "query"
    /\ s \in asked[w]
    /\ asked' = [asked EXCEPT ![w] = @ \ {s}]
    /\ UNCHANGED <<world, dropped, files, omp, crashes, pc, cutoff, snap, answered, got, todo, made, queue, run>>

(* _handle_deep_review: due when none is on record, or the last is old.    *)
ReviewDue(w) ==
    /\ Reviews
    /\ \/ snap[w].review = 0
       \/ cutoff[w].day - snap[w].review >= ReviewDays

(* _handle_invalidator: this tick's events and the references of earlier   *)
(* triggers, a hit carrying the summary of what it is about.               *)
InvalidatorHits(w) ==
    LET pool == {EventRef(e) : e \in got[w]} \cup RefsOf(SubSeq(inbox, 1, cutoff[w].upto))
    IN  {Wrap(ref) : ref \in {p \in pool : p.about \in Invalidating /\ p.wraps < MaxWraps}}

Candidates(w) ==
    {EventRef(e) : e \in got[w]}
        \cup InvalidatorHits(w)
        \cup (IF ReviewDue(w) THEN {ReviewRef(cutoff[w].day)} ELSE {})

(* Mutant: what the inbox names already is not left out.                   *)
SelectAgain(w) ==
    /\ pc[w] = "query"
    /\ asked[w] = {}
    /\ pc' = [pc EXCEPT ![w] = "create"]
    /\ todo' = [todo EXCEPT ![w] = Candidates(w)]
    /\ UNCHANGED <<world, dropped, files, omp, crashes, cutoff, snap, asked, answered, got, made, queue, run>>

(* _seen_markers and the rules: what no trigger of the inbox names yet.    *)
Select(w) ==
    /\ pc[w] = "query"
    /\ asked[w] = {}
    /\ pc' = [pc EXCEPT ![w] = "create"]
    /\ todo' = [todo EXCEPT ![w] = Candidates(w) \ RefsOf(inbox)]
    /\ UNCHANGED <<world, dropped, files, omp, crashes, cutoff, snap, asked, answered, got, made, queue, run>>

(* create_trigger, once per reference; on a thesis closed meanwhile it     *)
(* raises, which ends the tick and the loop.                               *)
Create(w, ref) ==
    /\ pc[w] = "create"
    /\ ref \in todo[w]
    /\ status # "closed"
    /\ inbox' = Append(inbox, [ref |-> ref, status |-> "pending", run |-> NoRun])
    /\ todo' = [todo EXCEPT ![w] = @ \ {ref}]
    /\ made' = [made EXCEPT ![w] = TRUE]
    /\ UNCHANGED <<world, dropped, checkpoint, omp, crashes, pc, cutoff, snap, asked, answered, got, queue, run>>

CreateRefused(w) ==
    /\ pc[w] = "create"
    /\ todo[w] # {}
    /\ status = "closed"
    /\ pc' = [pc EXCEPT ![w] = "stopped"]
    /\ Forget(w)
    /\ UNCHANGED <<world, dropped, files, omp, crashes>>

(* Mutant: only a tick that created triggers runs any.                     *)
ListPendingOfNew(w) ==
    /\ pc[w] = "create"
    /\ todo[w] = {}
    /\ pc' = [pc EXCEPT ![w] = "pending"]
    /\ queue' = [queue EXCEPT ![w] = IF made[w] THEN Pending ELSE {}]
    /\ UNCHANGED <<world, dropped, files, omp, crashes, cutoff, snap, asked, answered, got, todo, made, run>>

(* _run_pending lists the pending triggers once and takes the oldest first.*)
ListPending(w) ==
    /\ pc[w] = "create"
    /\ todo[w] = {}
    /\ pc' = [pc EXCEPT ![w] = "pending"]
    /\ queue' = [queue EXCEPT ![w] = Pending]
    /\ UNCHANGED <<world, dropped, files, omp, crashes, cutoff, snap, asked, answered, got, todo, made, run>>

(* A run id is fresh: no process, ticker or trigger refers to it, and what *)
(* an earlier holder of the id wrote is forgotten.                         *)
FreshRuns(i) ==
    RunId \ ({r \in RunId : <<i, r>> \in alive} \cup {run[w] : w \in Ticker} \cup {inbox[i].run})

(* run_trigger up to the launch of the child.                              *)
Launch(w) ==
    /\ pc[w] = "pending"
    /\ queue[w] # {}
    /\ IsPending(First(w))
    /\ \E r \in FreshRuns(First(w)) :
          /\ run' = [run EXCEPT ![w] = r]
          /\ alive' = alive \cup {<<First(w), r>>}
          /\ journal' = journal \ {<<First(w), r>>}
          /\ recorded' = recorded \ {<<First(w), r>>}
    /\ pc' = [pc EXCEPT ![w] = "omp"]
    /\ UNCHANGED <<world, dropped, files, crashes, cutoff, snap, asked, answered, got, todo, made, queue>>

(* run_trigger raises: the trigger is no longer pending, its context does  *)
(* not fit the budget or the child does not start.  The rest of the queue  *)
(* is left for a later tick.                                               *)
LaunchFails(w) ==
    /\ pc[w] = "pending"
    /\ queue[w] # {}
    /\ pc' = [pc EXCEPT ![w] = "save"]
    /\ queue' = [queue EXCEPT ![w] = {}]
    /\ UNCHANGED <<world, dropped, files, omp, crashes, cutoff, snap, asked, answered, got, todo, made, run>>

QueueDone(w) ==
    /\ pc[w] = "pending"
    /\ queue[w] = {}
    /\ pc' = [pc EXCEPT ![w] = "save"]
    /\ UNCHANGED <<world, dropped, files, omp, crashes, local>>

(* The child: writes its journal entry, then completes its recorder row    *)
(* (agent_end waits for the run's tool calls), or takes no further step.   *)
(* It lives in a session of its own and survives its ticker.               *)
OmpJournal(k) ==
    /\ k \in alive
    /\ k \notin journal \cup recorded
    /\ journal' = journal \cup {k}
    /\ UNCHANGED <<world, dropped, files, alive, recorded, crashes, pc, local>>

OmpRecord(k) ==
    /\ k \in alive
    /\ k \notin recorded
    /\ recorded' = recorded \cup {k}
    /\ UNCHANGED <<world, dropped, files, alive, journal, crashes, pc, local>>

(* Mutant: an entry of any run of the trigger will do.                     *)
HasAnyJournal(w) == \E k \in journal : k[1] = First(w)

ChildOf(w) == <<First(w), run[w]>>

HasJournal(w) == ChildOf(w) \in journal

(* _await_omp stops at completion, exit or deadline and reaps the child;   *)
(* completion and a journal entry of this very run are both required.      *)
EndRun(w) ==
    /\ pc[w] = "omp"
    /\ alive' = alive \ {ChildOf(w)}
    /\ IF ChildOf(w) \in recorded /\ HasJournal(w)
         THEN /\ pc' = [pc EXCEPT ![w] = "ack"]
              /\ UNCHANGED <<queue, run>>
         ELSE /\ pc' = [pc EXCEPT ![w] = "save"]
              /\ queue' = [queue EXCEPT ![w] = {}]
              /\ run' = [run EXCEPT ![w] = NoRun]
    /\ UNCHANGED <<world, dropped, files, journal, recorded, crashes, cutoff, snap, asked, answered, got, todo, made>>

(* mark_trigger_processed.                                                 *)
Ack(w) ==
    /\ pc[w] = "ack"
    /\ inbox' = [inbox EXCEPT ![First(w)].status = "processed", ![First(w)].run = run[w]]
    /\ pc' = [pc EXCEPT ![w] = "pending"]
    /\ queue' = [queue EXCEPT ![w] = @ \ {First(w)}]
    /\ run' = [run EXCEPT ![w] = NoRun]
    /\ UNCHANGED <<world, dropped, checkpoint, omp, crashes, cutoff, snap, asked, answered, got, todo, made>>

(* _cursor_state: the newest day returned, the cutoff's when nothing was.  *)
CursorState(w, s) ==
    LET days == {stamp[e] : e \in {x \in got[w] : SourceOf[x] = s}}
    IN  IF days = {} THEN cutoff[w].day ELSE Max(days)

Advanced(w) ==
    [cursor |-> [s \in Source |-> IF s \in answered[w] THEN CursorState(w, s) ELSE snap[w].cursor[s]],
     review |-> IF ReviewDue(w) THEN cutoff[w].day ELSE snap[w].review]

(* _advance_checkpoint: the whole file, from the copy this tick loaded; a  *)
(* tick that neither heard from a source nor created anything saves none.  *)
Save(w) ==
    /\ pc[w] = "save"
    /\ checkpoint' = IF answered[w] # {} \/ ReviewDue(w) \/ made[w] THEN Advanced(w) ELSE checkpoint
    /\ pc' = [pc EXCEPT ![w] = "idle"]
    /\ Forget(w)
    /\ UNCHANGED <<world, dropped, inbox, omp, crashes>>

-----------------------------------------------------------------------------
(* A ticker dies between two steps of a tick and is started again; what it *)
(* held in memory is gone (one that dies asleep holds nothing).            *)
Crash(w) ==
    /\ pc[w] \notin {"idle", "stopped"}
    /\ crashes < MaxCrashes
    /\ crashes' = crashes + 1
    /\ pc' = [pc EXCEPT ![w] = "idle"]
    /\ Forget(w)
    /\ UNCHANGED <<world, dropped, files, omp>>

Tick(w) ==
    \/ Gate(w) \/ Load(w) \/ Select(w)
    \/ \E s \in Source : QueryAnswers(w, s) \/ QueryFails(w, s)
    \/ \E ref \in todo[w] : Create(w, ref)
    \/ CreateRefused(w) \/ ListPending(w)
    \/ Launch(w) \/ LaunchFails(w) \/ QueueDone(w)
    \/ EndRun(w) \/ Ack(w) \/ Save(w)

Next ==
    \/ NextDay
    \/ \E e \in Event : Publish(e)
    \/ \E s \in Statuses : SetStatus(s)
    \/ \E w \in Ticker : Tick(w) \/ Crash(w)
    \/ \E k \in alive : OmpJournal(k) \/ OmpRecord(k)

Spec == Init /\ [][Next]_vars

(* The loop keeps ticking and a dead ticker is started again; a source     *)
(* that keeps failing, a child that is never launched, and one that never  *)
(* writes its entry or completes are outages that end.  Nothing is assumed *)
(* of the clock, the sources' news, the owner or crashes.                  *)
Fairness ==
    \A w \in Ticker :
        /\ WF_vars(Tick(w))
        /\ \A s \in Source : SF_vars(QueryAnswers(w, s))
        /\ SF_vars(Launch(w))
        /\ SF_vars(pc[w] = "omp" /\ OmpJournal(ChildOf(w)))
        /\ SF_vars(pc[w] = "omp" /\ ChildOf(w) \in journal /\ OmpRecord(ChildOf(w)))

FairSpec == Spec /\ Fairness

-----------------------------------------------------------------------------
(* An event behind the cursor of its source has its trigger: no crash, no  *)
(* failed query and no checkpoint written back by a slower tick hides one  *)
(* (_advance_checkpoint runs after _persist_triggers), the events a query  *)
(* left out for its limit excepted.                                        *)
NoEventLost ==
    \A e \in Event :
        stamp[e] # 0 /\ stamp[e] < checkpoint.cursor[SourceOf[e]]
            => e \in dropped \/ EventRef(e) \in RefsOf(inbox)

(* A processed trigger names a run that completed and that wrote a journal *)
(* entry for this trigger (run_trigger's acknowledgement), also when an    *)
(* orphaned or a failed earlier run wrote one too.                         *)
AckedByItsRun ==
    \A i \in DOMAIN inbox :
        inbox[i].status = "processed"
            => <<i, inbox[i].run>> \in journal \cap recorded

(* A single ticker keeps the promise of TriggerInbox across its crashes:   *)
(* "duplicate-safe ticks", one trigger per reference, acknowledged once.   *)
Inbox == INSTANCE TriggerInbox
            WITH Run <- RunId,
                 triggers <- [i \in DOMAIN inbox |->
                                [ref |-> inbox[i].ref,
                                 by |-> IF inbox[i].status = "processed" THEN inbox[i].run ELSE NoRun]]
ImplementsInbox == Inbox!Spec

(* While the thesis stays active, whatever a source shows ends up as a     *)
(* processed trigger: a failed query is asked again from the same cursor,  *)
(* and a failing run leaves its trigger first in line ("at-least-once      *)
(* retry"), whatever crashed in between.                                   *)
EventsProcessed ==
    <>[](status = "active")
        => \A e \in Event :
               stamp[e] # 0 ~> \/ e \in dropped
                              \/ \E i \in DOMAIN inbox : /\ inbox[i].ref = EventRef(e)
                                                         /\ inbox[i].status = "processed"

(* An invalidator hit fires once per event ("a repeat tick dedups via the  *)
(* persisted trigger instead of refiring", _handle_invalidator).           *)
InvalidatorFiresOnce ==
    \A e \in Event :
        Cardinality({i \in DOMAIN inbox : inbox[i].ref.about = e /\ inbox[i].ref.wraps > 0}) <= 1
=============================================================================
