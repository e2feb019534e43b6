------------------------------- MODULE Journal -------------------------------
(***************************************************************************)
(* The hash-chained journal of one research session: the journal table     *)
(* (repository.py save_event, list_events), the in-memory log of every     *)
(* process (journal.py _LOG), and the threads that emit events into both   *)
(* (service.py _emit, _decide_settle, runner.py _emit) or load the table   *)
(* into the log (repository.py resume).                                    *)
(*                                                                         *)
(* An emit is four steps that nothing holds together: it lists the table   *)
(* and checks its chain, replaces the process's log, takes the next        *)
(* sequence number from the log under the log's lock, and inserts the row. *)
(* Each is atomic: the store's connection opens a write transaction before *)
(* its first query.                                                        *)
(*                                                                         *)
(* A row's hash covers its event and the previous hash, so as long as no   *)
(* two rows hold the same event it is named by the event's id.             *)
(***************************************************************************)
EXTENDS Integers, FiniteSets, FiniteSetsExt

CONSTANTS
    Worker,         \* the threads that emit
    Process,        \* the processes they run in
    ProcessOf,      \* the process of each thread
    MaxEmits        \* bound: emits of one thread

ASSUME ProcessAssumption == ProcessOf \in [Worker -> Process]
ASSUME EmitsAssumption == MaxEmits \in Nat

VARIABLES
    rows,       \* the table: sequence number -> the row's event and prev_hash
    log,        \* the highest sequence number in each process's _LOG, 0 when it is empty
    pc,         \* the next step of each thread
    listed,     \* the sequence numbers a thread listed
    sequence,   \* the number its event was given
    emits,      \* how many emits it has begun
    fate        \* what became of its last emit

vars == <<rows, log, pc, listed, sequence, emits, fate>>

Event == Worker \X (1..MaxEmits)
Genesis == <<>>                             \* "GENESIS", the prev_hash of a first row
Row == [event : Event, prev : Event \union {Genesis}]

Steps == {"idle", "hydrate", "load", "append", "save"}
Fates == {"none", "kept", "lost", "died"}

Init ==
    /\ rows = [s \in {} |-> Genesis]
    /\ log = [p \in Process |-> 0]
    /\ pc = [w \in Worker |-> "idle"]
    /\ listed = [w \in Worker |-> {}]
    /\ sequence = [w \in Worker |-> 0]
    /\ emits = [w \in Worker |-> 0]
    /\ fate = [w \in Worker |-> "none"]

\* The hash of the row with the highest number of S.
LastHash(S) == IF S = {} THEN Genesis ELSE rows[Max(S)].event

\* list_events raises nothing: every row continues the one before it.
ChainIntact == \A s \in DOMAIN rows : rows[s].prev = LastHash({t \in DOMAIN rows : t < s})

\* hydrate raises nothing: the numbers listed are 1, 2, ... with no gap.
GapFree(S) == S = 1..Cardinality(S)

Go(w, step) == pc' = [pc EXCEPT ![w] = step]

\* The emit is over: its event is stored, or an exception was raised (and swallowed by _emit).
Finish(w, how) == Go(w, "idle") /\ fate' = [fate EXCEPT ![w] = how]

\* An emit begins: store.list_events.
Emit(w) ==
    /\ pc[w] = "idle" /\ emits[w] < MaxEmits
    /\ emits' = [emits EXCEPT ![w] = @ + 1]
    /\ listed' = [listed EXCEPT ![w] = DOMAIN rows]
    /\ IF ChainIntact THEN Go(w, "hydrate") /\ fate' = [fate EXCEPT ![w] = "none"]
                      ELSE Finish(w, "lost")
    /\ UNCHANGED <<rows, log, sequence>>

\* Mutant: append_event without the hydrate before it: the log of a process that has just started is empty.
UnhydratedAppend(w) ==
    /\ pc[w] = "hydrate"
    /\ Go(w, "append")
    /\ UNCHANGED <<rows, log, listed, sequence, emits, fate>>

\* hydrate: the process's log becomes what was listed.
Hydrate(w) ==
    /\ pc[w] = "hydrate"
    /\ IF GapFree(listed[w]) THEN /\ log' = [log EXCEPT ![ProcessOf[w]] = Cardinality(listed[w])]
                                  /\ Go(w, "append") /\ UNCHANGED fate
                             ELSE Finish(w, "lost") /\ UNCHANGED log
    /\ UNCHANGED <<rows, listed, sequence, emits>>

\* Mutant: the highest number of the log, not one past it.
ZeroBasedAppend(w) ==
    /\ pc[w] = "append"
    /\ sequence' = [sequence EXCEPT ![w] = log[ProcessOf[w]]]
    /\ log' = [log EXCEPT ![ProcessOf[w]] = @ + 1]
    /\ Go(w, "save")
    /\ UNCHANGED <<rows, listed, emits, fate>>

\* append_event: one past the highest number of the process's log.
AppendEvent(w) ==
    /\ pc[w] = "append"
    /\ sequence' = [sequence EXCEPT ![w] = log[ProcessOf[w]] + 1]
    /\ log' = [log EXCEPT ![ProcessOf[w]] = @ + 1]
    /\ Go(w, "save")
    /\ UNCHANGED <<rows, listed, emits, fate>>

\* The table with the thread's event chained to its highest row.
Inserted(w) == [s \in DOMAIN rows \union {sequence[w]} |->
    IF s = sequence[w] THEN [event |-> <<w, emits[w]>>, prev |-> LastHash(DOMAIN rows)] ELSE rows[s]]

\* Mutant: INSERT OR REPLACE in place of INSERT.
ReplacingSave(w) ==
    /\ pc[w] = "save"
    /\ rows' = Inserted(w)
    /\ Finish(w, "kept")
    /\ UNCHANGED <<log, listed, sequence, emits>>

\* save_event: a number already taken is refused.
SaveEvent(w) ==
    /\ pc[w] = "save"
    /\ IF sequence[w] \in DOMAIN rows
       THEN Finish(w, "lost") /\ UNCHANGED rows
       ELSE rows' = Inserted(w) /\ Finish(w, "kept")
    /\ UNCHANGED <<log, listed, sequence, emits>>

\* resume: lists and hydrates, and appends nothing.
Resume(w) ==
    /\ pc[w] = "idle" /\ ChainIntact
    /\ listed' = [listed EXCEPT ![w] = DOMAIN rows]
    /\ fate' = [fate EXCEPT ![w] = "none"]
    /\ Go(w, "load")
    /\ UNCHANGED <<rows, log, sequence, emits>>

Load(w) ==
    /\ pc[w] = "load"
    /\ log' = IF GapFree(listed[w]) THEN [log EXCEPT ![ProcessOf[w]] = Cardinality(listed[w])] ELSE log
    /\ Go(w, "idle")
    /\ UNCHANGED <<rows, listed, sequence, emits, fate>>

\* A process dies with its log and whatever its threads were doing.
Crash(p) ==
    /\ log' = [log EXCEPT ![p] = 0]
    /\ pc' = [w \in Worker |-> IF ProcessOf[w] = p THEN "idle" ELSE pc[w]]
    /\ fate' = [w \in Worker |-> IF ProcessOf[w] = p /\ pc[w] # "idle" THEN "died" ELSE fate[w]]
    /\ UNCHANGED <<rows, listed, sequence, emits>>

Next ==
    \/ \E w \in Worker : \/ Emit(w) \/ Hydrate(w) \/ AppendEvent(w) \/ SaveEvent(w)
                         \/ Resume(w) \/ Load(w)
    \/ \E p \in Process : Crash(p)

Spec == Init /\ [][Next]_vars

-----------------------------------------------------------------------------
(* Properties *)

TypeOK ==
    /\ DOMAIN rows \subseteq Nat \ {0} /\ rows \in [DOMAIN rows -> Row]
    /\ log \in [Process -> Nat]
    /\ pc \in [Worker -> Steps]
    /\ listed \in [Worker -> SUBSET (Nat \ {0})]
    /\ sequence \in [Worker -> Nat]
    /\ emits \in [Worker -> 0..MaxEmits]
    /\ fate \in [Worker -> Fates]

\* The journal can always be read back: list_events never finds a broken chain
\* and hydrate never finds a gap.  Every telemetry read, decide_next_wave and
\* resume of the session depend on it, and no code repairs a broken one.
JournalReadable == ChainIntact /\ GapFree(DOMAIN rows)

\* An event is lost only because another thread's was stored between this
\* emit's list and its insert (_emit swallows the refusal): one that races
\* with nobody is always stored.
LostOnlyToAnother == \A w \in Worker :
    fate[w] = "lost" => \E s \in DOMAIN rows \ listed[w] : rows[s].event[1] # w

\* The table read in sequence order is an append-only log: whatever the
\* processes race over, no event is moved, overwritten or stored twice.
Recorded == [s \in 1..Cardinality(DOMAIN rows) |-> rows[s].event]
Abstract == INSTANCE AppendOnlyLog WITH log <- Recorded, Entry <- Event
ImplementsLog == Abstract!LogSpec
=============================================================================
