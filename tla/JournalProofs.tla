---------------------------- MODULE JournalProofs ----------------------------
(***************************************************************************)
(* Proofs about Journal, for any number of threads and processes, as long  *)
(* as no two threads of a process emit.                                    *)
(*                                                                         *)
(* The table is then always numbered 1..n, what a thread listed is a       *)
(* prefix of it, and the number an emit was given is one past the prefix   *)
(* it listed: a row with that number can only come from another process.   *)
(***************************************************************************)
EXTENDS Journal, FiniteSetTheorems, SequenceTheorems, TLAPS

\* No two threads of a process emit.
WorkersApart == \A v, w \in Worker : ProcessOf[v] = ProcessOf[w] => v = w

Emitting(w) == pc[w] \in {"hydrate", "append", "save"}
Counted(w) == Cardinality(listed[w])

\* The table is numbered 1..n and every row continues the one before it.
RowsOK(n) ==
    /\ rows \in [1..n -> Row]
    /\ \A s \in 1..n : rows[s].prev = IF s = 1 THEN Genesis ELSE rows[s - 1].event

\* A thread listed a prefix of the table, and emits one past it.
ThreadOK(w, n) ==
    /\ Counted(w) \in 0..n /\ listed[w] = 1..Counted(w)
    /\ pc[w] = "append" => log[ProcessOf[w]] = Counted(w)
    /\ pc[w] = "save" => sequence[w] = Counted(w) + 1
    /\ Emitting(w) => emits[w] \in 1..MaxEmits

\* A thread's events carry the numbers of emits it has begun; none of its
\* current emit's, and none after its listing, is stored before the emit ends.
EventsOK(w, n) ==
    /\ \A s \in 1..n : rows[s].event[1] = w =>
           /\ rows[s].event[2] <= emits[w]
           /\ Emitting(w) => rows[s].event[2] # emits[w] /\ s \in listed[w]
    /\ fate[w] = "lost" => \E s \in 1..n : s \notin listed[w] /\ rows[s].event[1] # w

Types ==
    /\ log \in [Process -> Nat]
    /\ pc \in [Worker -> Steps]
    /\ listed \in [Worker -> SUBSET (Nat \ {0})]
    /\ sequence \in [Worker -> Nat]
    /\ emits \in [Worker -> 0..MaxEmits]
    /\ fate \in [Worker -> Fates]

Sized(n) == RowsOK(n) /\ \A w \in Worker : ThreadOK(w, n) /\ EventsOK(w, n)

IInv == Types /\ \E n \in Nat : Sized(n)

-----------------------------------------------------------------------------
(* Lemmas *)

LEMMA IntervalCardinality == \A n \in Nat : Cardinality(1..n) = n
  BY FS_Interval

LEMMA IntervalMax == \A n \in Nat \ {0} : Max(1..n) = n
  BY DEF Max

\* The last hash of a table numbered 1..n.
LEMMA LastHashOfPrefix ==
    ASSUME NEW n \in Nat, rows \in [1..n -> Row], NEW k \in 0..n
    PROVE  LastHash(1..k) = IF k = 0 THEN Genesis ELSE rows[k].event
  <1>1. CASE k = 0
    BY <1>1 DEF LastHash
  <1>2. CASE k # 0
    <2>1. k \in Nat \ {0} /\ k \in 1..k
      BY <1>2
    <2>2. Max(1..k) = k
      BY <2>1, IntervalMax
    <2> QED
      BY <2>1, <2>2, <1>2 DEF LastHash
  <1> QED
    BY <1>1, <1>2

\* The inductive invariant says that list_events and hydrate succeed.
LEMMA SizedReadable ==
    ASSUME NEW n \in Nat, RowsOK(n)
    PROVE  ChainIntact /\ DOMAIN rows = 1..n /\ GapFree(DOMAIN rows)
  <1>1. rows \in [1..n -> Row] /\ DOMAIN rows = 1..n
    BY DEF RowsOK
  <1>2. GapFree(DOMAIN rows)
    BY <1>1, IntervalCardinality DEF GapFree
  <1>3. ASSUME NEW s \in 1..n
        PROVE  rows[s].prev = LastHash({t \in DOMAIN rows : t < s})
    <2>1. {t \in DOMAIN rows : t < s} = 1..(s - 1)
      BY <1>1
    <2>2. s - 1 \in 0..n /\ (s - 1 = 0 <=> s = 1)
      OBVIOUS
    <2>3. LastHash(1..(s - 1)) = IF s - 1 = 0 THEN Genesis ELSE rows[s - 1].event
      BY <1>1, <2>2, LastHashOfPrefix
    <2> QED
      BY <2>1, <2>2, <2>3 DEF RowsOK
  <1> QED
    BY <1>1, <1>2, <1>3 DEF ChainIntact

-----------------------------------------------------------------------------
(* The invariant *)

LEMMA InitInv == Init => IInv
  <1> SUFFICES ASSUME Init PROVE IInv
    OBVIOUS
  <1> USE EmitsAssumption, ProcessAssumption DEF Init
  <1>1. Types
    BY DEF Types, Steps, Fates
  <1>2. RowsOK(0)
    BY DEF RowsOK
  <1>3. \A w \in Worker : ThreadOK(w, 0) /\ EventsOK(w, 0)
    BY IntervalCardinality DEF ThreadOK, EventsOK, Counted, Emitting
  <1> QED
    BY <1>1, <1>2, <1>3 DEF IInv, Sized
\* A step of one thread that leaves the table alone.
LEMMA TableUnchanged ==
    ASSUME NEW n \in Nat, Sized(n), NEW w \in Worker, Types', UNCHANGED rows,
           \A v \in Worker \ {w} : ThreadOK(v, n)' /\ EventsOK(v, n)',
           ThreadOK(w, n)', EventsOK(w, n)'
    PROVE  IInv'
  BY DEF IInv, Sized, RowsOK

\* What another thread's step leaves alone.
LEMMA OtherThread ==
    ASSUME NEW n \in Nat, Sized(n), NEW v \in Worker, UNCHANGED rows,
           pc'[v] = pc[v], listed'[v] = listed[v], sequence'[v] = sequence[v],
           emits'[v] = emits[v], fate'[v] = fate[v],
           pc[v] = "append" => log'[ProcessOf[v]] = log[ProcessOf[v]]
    PROVE  ThreadOK(v, n)' /\ EventsOK(v, n)'
  BY DEF Sized, ThreadOK, EventsOK, Counted, Emitting

LEMMA EmitInv ==
    ASSUME IInv, NEW w \in Worker, Emit(w)
    PROVE  IInv'
  <1>1. PICK n \in Nat : Sized(n)
    BY DEF IInv
  <1>2. ChainIntact /\ DOMAIN rows = 1..n
    BY <1>1, SizedReadable DEF Sized
  <1>4. /\ pc' = [pc EXCEPT ![w] = "hydrate"] /\ fate' = [fate EXCEPT ![w] = "none"]
        /\ emits' = [emits EXCEPT ![w] = @ + 1] /\ emits[w] < MaxEmits
        /\ listed' = [listed EXCEPT ![w] = 1..n] /\ UNCHANGED <<rows, log, sequence>>
    BY <1>2 DEF Emit, Go
  <1>3. Types /\ Types'
    BY <1>4, EmitsAssumption DEF IInv, Types, Steps, Fates
  <1>5. \A v \in Worker \ {w} : ThreadOK(v, n)' /\ EventsOK(v, n)'
    <2> SUFFICES ASSUME NEW v \in Worker \ {w} PROVE ThreadOK(v, n)' /\ EventsOK(v, n)'
      OBVIOUS
    <2>1. /\ pc'[v] = pc[v] /\ listed'[v] = listed[v] /\ sequence'[v] = sequence[v]
          /\ emits'[v] = emits[v] /\ fate'[v] = fate[v]
      BY <1>3, <1>4 DEF Types
    <2> QED
      BY <1>1, <1>4, <2>1, OtherThread
  <1>6. ThreadOK(w, n)'
    <2>1. listed'[w] = 1..n /\ Counted(w)' = n
      BY <1>3, <1>4, IntervalCardinality DEF Types, Counted
    <2>2. pc'[w] = "hydrate" /\ emits'[w] \in 1..MaxEmits
      BY <1>3, <1>4, EmitsAssumption DEF Types
    <2> QED
      BY <2>1, <2>2 DEF ThreadOK
  <1>7. EventsOK(w, n)'
    <2>1. listed'[w] = 1..n /\ fate'[w] = "none" /\ emits'[w] = emits[w] + 1 /\ emits[w] \in Nat
      BY <1>3, <1>4, EmitsAssumption DEF Types
    <2>2. \A s \in 1..n : rows[s].event \in Event
      BY <1>1 DEF Sized, RowsOK, Row
    <2>3. \A s \in 1..n : rows[s].event[1] = w => rows[s].event[2] <= emits[w]
      BY <1>1 DEF Sized, EventsOK
    <2>4. \A s \in 1..n : rows[s].event[2] \in Nat
      BY <2>2, EmitsAssumption DEF Event
    <2> QED
      BY <1>4, <2>1, <2>3, <2>4 DEF EventsOK, Emitting
  <1> QED
    BY <1>1, <1>3, <1>4, <1>5, <1>6, <1>7, TableUnchanged

LEMMA HydrateInv ==
    ASSUME IInv, WorkersApart, NEW w \in Worker, Hydrate(w)
    PROVE  IInv'
  <1>1. PICK n \in Nat : Sized(n)
    BY DEF IInv
  <1>2. Types /\ ThreadOK(w, n) /\ EventsOK(w, n) /\ Counted(w) \in Nat
    BY <1>1 DEF IInv, Sized, ThreadOK
  <1>3. GapFree(listed[w])
    BY <1>2 DEF GapFree, ThreadOK, Counted
  <1>4. /\ log' = [log EXCEPT ![ProcessOf[w]] = Counted(w)] /\ pc' = [pc EXCEPT ![w] = "append"]
        /\ UNCHANGED <<rows, listed, sequence, emits, fate>> /\ pc[w] = "hydrate"
    BY <1>3 DEF Hydrate, Go, Counted
  <1>5. Types'
    BY <1>2, <1>4, ProcessAssumption DEF Types, Steps
  <1>6. \A v \in Worker \ {w} : ThreadOK(v, n)' /\ EventsOK(v, n)'
    <2> SUFFICES ASSUME NEW v \in Worker \ {w} PROVE ThreadOK(v, n)' /\ EventsOK(v, n)'
      OBVIOUS
    <2>1. pc'[v] = pc[v] /\ log'[ProcessOf[v]] = log[ProcessOf[v]]
      BY <1>2, <1>4, ProcessAssumption DEF Types, WorkersApart
    <2> QED
      BY <1>1, <1>4, <2>1, OtherThread
  <1>7. ThreadOK(w, n)'
    <2>1. pc'[w] = "append" /\ log'[ProcessOf[w]] = Counted(w) /\ Counted(w)' = Counted(w)
      BY <1>2, <1>4, ProcessAssumption DEF Types, Counted
    <2> QED
      BY <1>2, <1>4, <2>1 DEF ThreadOK, Emitting
  <1>8. EventsOK(w, n)'
    BY <1>2, <1>4 DEF EventsOK, Emitting
  <1> QED
    BY <1>1, <1>4, <1>5, <1>6, <1>7, <1>8, TableUnchanged

LEMMA AppendEventInv ==
    ASSUME IInv, WorkersApart, NEW w \in Worker, AppendEvent(w)
    PROVE  IInv'
  <1>1. PICK n \in Nat : Sized(n)
    BY DEF IInv
  <1>2. Types /\ ThreadOK(w, n) /\ EventsOK(w, n)
    BY <1>1 DEF IInv, Sized
  <1>3. /\ sequence' = [sequence EXCEPT ![w] = log[ProcessOf[w]] + 1]
        /\ log' = [log EXCEPT ![ProcessOf[w]] = @ + 1] /\ pc' = [pc EXCEPT ![w] = "save"]
        /\ UNCHANGED <<rows, listed, emits, fate>> /\ pc[w] = "append"
    BY DEF AppendEvent, Go
  <1>4. ProcessOf[w] \in Process /\ log[ProcessOf[w]] \in Nat
    BY <1>2, ProcessAssumption DEF Types
  <1>5. Types'
    BY <1>2, <1>3, <1>4 DEF Types, Steps
  <1>6. \A v \in Worker \ {w} : ThreadOK(v, n)' /\ EventsOK(v, n)'
    <2> SUFFICES ASSUME NEW v \in Worker \ {w} PROVE ThreadOK(v, n)' /\ EventsOK(v, n)'
      OBVIOUS
    <2>1. /\ pc'[v] = pc[v] /\ sequence'[v] = sequence[v]
          /\ log'[ProcessOf[v]] = log[ProcessOf[v]]
      BY <1>2, <1>3, ProcessAssumption DEF Types, WorkersApart
    <2> QED
      BY <1>1, <1>3, <2>1, OtherThread
  <1>7. ThreadOK(w, n)'
    <2>1. pc'[w] = "save" /\ sequence'[w] = Counted(w) + 1 /\ Counted(w)' = Counted(w)
      BY <1>2, <1>3, <1>4 DEF Types, Counted, ThreadOK
    <2> QED
      BY <1>2, <1>3, <2>1 DEF ThreadOK, Emitting
  <1>8. EventsOK(w, n)'
    BY <1>2, <1>3 DEF EventsOK, Emitting
  <1> QED
    BY <1>1, <1>3, <1>5, <1>6, <1>7, <1>8, TableUnchanged

LEMMA ResumeInv ==
    ASSUME IInv, NEW w \in Worker, Resume(w)
    PROVE  IInv'
  <1>1. PICK n \in Nat : Sized(n)
    BY DEF IInv
  <1>2. DOMAIN rows = 1..n
    BY <1>1, SizedReadable DEF Sized
  <1>3. /\ listed' = [listed EXCEPT ![w] = 1..n] /\ fate' = [fate EXCEPT ![w] = "none"]
        /\ pc' = [pc EXCEPT ![w] = "load"] /\ UNCHANGED <<rows, log, sequence, emits>>
    BY <1>2 DEF Resume, Go
  <1>4. Types /\ Types'
    BY <1>3 DEF IInv, Types, Steps, Fates
  <1>5. \A v \in Worker \ {w} : ThreadOK(v, n)' /\ EventsOK(v, n)'
    <2> SUFFICES ASSUME NEW v \in Worker \ {w} PROVE ThreadOK(v, n)' /\ EventsOK(v, n)'
      OBVIOUS
    <2>1. pc'[v] = pc[v] /\ listed'[v] = listed[v] /\ fate'[v] = fate[v]
      BY <1>3, <1>4 DEF Types
    <2> QED
      BY <1>1, <1>3, <2>1, OtherThread
  <1>6. ThreadOK(w, n)'
    <2>1. listed'[w] = 1..n /\ Counted(w)' = n /\ pc'[w] = "load"
      BY <1>3, <1>4, IntervalCardinality DEF Types, Counted
    <2> QED
      BY <2>1 DEF ThreadOK, Emitting
  <1>7. EventsOK(w, n)'
    <2>1. pc'[w] = "load" /\ fate'[w] = "none"
      BY <1>3, <1>4 DEF Types
    <2> QED
      BY <1>1, <1>3, <2>1 DEF Sized, EventsOK, Emitting
  <1> QED
    BY <1>1, <1>3, <1>4, <1>5, <1>6, <1>7, TableUnchanged

LEMMA LoadInv ==
    ASSUME IInv, WorkersApart, NEW w \in Worker, Load(w)
    PROVE  IInv'
  <1>1. PICK n \in Nat : Sized(n)
    BY DEF IInv
  <1>2. Types /\ ThreadOK(w, n) /\ EventsOK(w, n) /\ Counted(w) \in Nat
    BY <1>1 DEF IInv, Sized, ThreadOK
  <1>3. /\ log' = log \/ log' = [log EXCEPT ![ProcessOf[w]] = Counted(w)]
        /\ pc' = [pc EXCEPT ![w] = "idle"]
        /\ UNCHANGED <<rows, listed, sequence, emits, fate>> /\ pc[w] = "load"
    BY DEF Load, Go, Counted
  <1>4. Types'
    BY <1>2, <1>3, ProcessAssumption DEF Types, Steps
  <1>5. \A v \in Worker \ {w} : ThreadOK(v, n)' /\ EventsOK(v, n)'
    <2> SUFFICES ASSUME NEW v \in Worker \ {w} PROVE ThreadOK(v, n)' /\ EventsOK(v, n)'
      OBVIOUS
    <2>1. pc'[v] = pc[v] /\ log'[ProcessOf[v]] = log[ProcessOf[v]]
      BY <1>2, <1>3, ProcessAssumption DEF Types, WorkersApart
    <2> QED
      BY <1>1, <1>3, <2>1, OtherThread
  <1>6. ThreadOK(w, n)' /\ EventsOK(w, n)'
    <2>1. pc'[w] = "idle"
      BY <1>2, <1>3 DEF Types
    <2> QED
      BY <1>2, <1>3, <2>1 DEF ThreadOK, EventsOK, Emitting, Counted
  <1> QED
    BY <1>1, <1>3, <1>4, <1>5, <1>6, TableUnchanged

LEMMA CrashInv ==
    ASSUME IInv, NEW p \in Process, Crash(p)
    PROVE  IInv'
  <1>1. PICK n \in Nat : Sized(n)
    BY DEF IInv
  <1>2. Types /\ Types'
    BY DEF IInv, Types, Crash, Steps, Fates
  <1>3. UNCHANGED <<rows, listed, sequence, emits>>
    BY DEF Crash
  <1>4. ASSUME NEW v \in Worker
        PROVE  ThreadOK(v, n)' /\ EventsOK(v, n)'
    <2>1. CASE ProcessOf[v] # p
      <3>1. pc'[v] = pc[v] /\ fate'[v] = fate[v] /\ log'[ProcessOf[v]] = log[ProcessOf[v]]
        BY <1>2, <2>1, ProcessAssumption DEF Types, Crash
      <3> QED
        BY <1>1, <1>3, <3>1, OtherThread
    <2>2. CASE ProcessOf[v] = p
      <3>1. pc'[v] = "idle" /\ (fate'[v] = fate[v] \/ fate'[v] = "died")
        BY <2>2 DEF Crash
      <3> QED
        BY <1>1, <1>3, <3>1 DEF Sized, ThreadOK, EventsOK, Emitting, Counted
    <2> QED
      BY <2>1, <2>2
  <1> QED
    BY <1>1, <1>2, <1>3, <1>4 DEF IInv, Sized, RowsOK
\* The number is one past the prefix the emit listed: free, it is the next of the table.
LEMMA SaveNumber ==
    ASSUME NEW n \in Nat, Sized(n), Types, NEW w \in Worker, pc[w] = "save"
    PROVE  /\ sequence[w] = Counted(w) + 1 /\ sequence[w] \in Nat /\ sequence[w] >= 1
           /\ sequence[w] \notin listed[w]
           /\ sequence[w] \notin DOMAIN rows => sequence[w] = n + 1 /\ listed[w] = 1..n
           /\ DOMAIN rows = 1..n
  BY DEF Sized, Types, ThreadOK, RowsOK

LEMMA SaveLostInv ==
    ASSUME IInv, NEW w \in Worker, SaveEvent(w), sequence[w] \in DOMAIN rows
    PROVE  IInv'
  <1>1. PICK n \in Nat : Sized(n)
    BY DEF IInv
  <1>2. /\ pc[w] = "save" /\ pc' = [pc EXCEPT ![w] = "idle"] /\ fate' = [fate EXCEPT ![w] = "lost"]
        /\ UNCHANGED <<rows, log, listed, sequence, emits>>
    BY DEF SaveEvent, Finish, Go
  <1>3. Types /\ Types'
    BY <1>2 DEF IInv, Types, Steps, Fates
  <1>4. \A v \in Worker \ {w} : ThreadOK(v, n)' /\ EventsOK(v, n)'
    <2> SUFFICES ASSUME NEW v \in Worker \ {w} PROVE ThreadOK(v, n)' /\ EventsOK(v, n)'
      OBVIOUS
    <2>1. pc'[v] = pc[v] /\ fate'[v] = fate[v]
      BY <1>2, <1>3 DEF Types
    <2> QED
      BY <1>1, <1>2, <2>1, OtherThread
  <1>5. ThreadOK(w, n)' /\ EventsOK(w, n)'
    <2>1. pc'[w] = "idle"
      BY <1>2, <1>3 DEF Types
    <2>2. sequence[w] \in 1..n /\ sequence[w] \notin listed[w]
      BY <1>1, <1>2, <1>3, SaveNumber
    <2>3. rows[sequence[w]].event[1] # w
      BY <1>1, <1>2, <2>2 DEF Sized, EventsOK, Emitting
    <2>4. ThreadOK(w, n) /\ EventsOK(w, n)
      BY <1>1 DEF Sized
    <2>5. ThreadOK(w, n)'
      BY <1>2, <2>1, <2>4 DEF ThreadOK, Emitting, Counted
    <2>6. EventsOK(w, n)'
      BY <1>2, <2>1, <2>2, <2>3, <2>4 DEF EventsOK, Emitting
    <2> QED
      BY <2>5, <2>6
  <1> QED
    BY <1>1, <1>2, <1>3, <1>4, <1>5, TableUnchanged

\* The row a kept emit inserts.
NewRow(w, n) == [event |-> <<w, emits[w]>>, prev |-> IF n = 0 THEN Genesis ELSE rows[n].event]

LEMMA SaveKept ==
    ASSUME NEW n \in Nat, Sized(n), Types, NEW w \in Worker, SaveEvent(w), sequence[w] \notin DOMAIN rows
    PROVE  /\ rows' = [s \in 1..(n + 1) |-> IF s = n + 1 THEN NewRow(w, n) ELSE rows[s]]
           /\ NewRow(w, n) \in Row
           /\ pc' = [pc EXCEPT ![w] = "idle"] /\ fate' = [fate EXCEPT ![w] = "kept"]
           /\ UNCHANGED <<log, listed, sequence, emits>>
           /\ pc[w] = "save" /\ listed[w] = 1..n
  <1>1. pc[w] = "save"
    BY DEF SaveEvent
  <1>2. sequence[w] = n + 1 /\ listed[w] = 1..n /\ DOMAIN rows = 1..n
    BY <1>1, SaveNumber
  <1>3. DOMAIN rows \union {sequence[w]} = 1..(n + 1)
    BY <1>2
  <1>4. LastHash(DOMAIN rows) = IF n = 0 THEN Genesis ELSE rows[n].event
    <2>1. rows \in [1..n -> Row] /\ n \in 0..n
      BY DEF Sized, RowsOK
    <2> QED
      BY <1>2, <2>1, LastHashOfPrefix
  <1>5. rows' = [s \in 1..(n + 1) |-> IF s = n + 1 THEN NewRow(w, n) ELSE rows[s]]
    BY <1>2, <1>3, <1>4 DEF SaveEvent, Inserted, NewRow
  <1>6. NewRow(w, n) \in Row
    <2>1. <<w, emits[w]>> \in Event
      BY <1>1 DEF Sized, ThreadOK, Emitting, Event
    <2>2. n # 0 => rows[n] \in Row
      BY DEF Sized, RowsOK
    <2> QED
      BY <2>1, <2>2 DEF NewRow, Row
  <1> QED
    BY <1>1, <1>2, <1>5, <1>6 DEF SaveEvent, Finish, Go

LEMMA SaveKeptInv ==
    ASSUME IInv, NEW w \in Worker, SaveEvent(w), sequence[w] \notin DOMAIN rows
    PROVE  IInv'
  <1>1. PICK n \in Nat : Sized(n)
    BY DEF IInv
  <1>2. Types
    BY DEF IInv
  <1>3. /\ rows' = [s \in 1..(n + 1) |-> IF s = n + 1 THEN NewRow(w, n) ELSE rows[s]]
        /\ NewRow(w, n) \in Row
        /\ pc' = [pc EXCEPT ![w] = "idle"] /\ fate' = [fate EXCEPT ![w] = "kept"]
        /\ UNCHANGED <<log, listed, sequence, emits>>
        /\ pc[w] = "save" /\ listed[w] = 1..n
    BY <1>1, <1>2, SaveKept
  <1>4. Types'
    BY <1>2, <1>3 DEF Types, Steps, Fates
  <1>5. rows \in [1..n -> Row] /\ (\A s \in 1..n : rows'[s] = rows[s]) /\ rows'[n + 1] = NewRow(w, n)
    BY <1>1, <1>3 DEF Sized, RowsOK
  <1>6. RowsOK(n + 1)'
    <2>1. rows' \in [1..(n + 1) -> Row]
      BY <1>3, <1>5
    <2>2. ASSUME NEW s \in 1..n
          PROVE  rows'[s].prev = IF s = 1 THEN Genesis ELSE rows'[s - 1].event
      BY <1>1, <1>5 DEF Sized, RowsOK
    <2>3. rows'[n + 1].prev = IF n + 1 = 1 THEN Genesis ELSE rows'[n].event
      BY <1>5 DEF NewRow
    <2> QED
      BY <2>1, <2>2, <2>3 DEF RowsOK
  <1>7. rows'[n + 1].event[1] = w /\ rows'[n + 1].event[2] = emits[w]
    BY <1>5 DEF NewRow
  <1>8. ASSUME NEW v \in Worker
        PROVE  ThreadOK(v, n + 1)'
    <2>1. ThreadOK(v, n) /\ Counted(v)' = Counted(v)
      BY <1>1, <1>3 DEF Sized, Counted
    <2>2. pc'[v] = pc[v] \/ pc'[v] = "idle"
      BY <1>2, <1>3 DEF Types
    <2> QED
      BY <1>3, <2>1, <2>2 DEF ThreadOK, Emitting
  <1>9. ASSUME NEW v \in Worker
        PROVE  EventsOK(v, n + 1)'
    <2>1. EventsOK(v, n) /\ emits[v] \in Nat
      BY <1>1, <1>2, EmitsAssumption DEF Sized, Types
    <2>2. CASE v = w
      <3>1. pc'[w] = "idle" /\ fate'[w] = "kept"
        BY <1>2, <1>3 DEF Types
      <3> QED
        BY <1>3, <1>5, <1>7, <2>1, <2>2, <3>1 DEF EventsOK, Emitting
    <2>3. CASE v # w
      <3>1. pc'[v] = pc[v] /\ fate'[v] = fate[v]
        BY <1>2, <1>3, <2>3 DEF Types
      <3> QED
        BY <1>3, <1>5, <1>7, <2>1, <2>3, <3>1 DEF EventsOK, Emitting
    <2> QED
      BY <2>2, <2>3
  <1>10. Sized(n + 1)'
    BY <1>6, <1>8, <1>9 DEF Sized
  <1> QED
    BY <1>4, <1>10 DEF IInv

LEMMA StutterInv == IInv /\ UNCHANGED vars => IInv'
  <1> SUFFICES ASSUME IInv, UNCHANGED vars PROVE IInv'
    OBVIOUS
  <1>1. PICK n \in Nat : Sized(n)
    BY DEF IInv
  <1>2. UNCHANGED <<rows, log, pc, listed, sequence, emits, fate>>
    BY DEF vars
  <1>3. \A v \in Worker : ThreadOK(v, n)' /\ EventsOK(v, n)'
    BY <1>1, <1>2, OtherThread
  <1>4. Types' /\ RowsOK(n)'
    BY <1>1, <1>2 DEF IInv, Types, Sized, RowsOK
  <1> QED
    BY <1>3, <1>4 DEF IInv, Sized

LEMMA NextInv == WorkersApart /\ IInv /\ [Next]_vars => IInv'
  <1> SUFFICES ASSUME WorkersApart, IInv, [Next]_vars PROVE IInv'
    OBVIOUS
  <1>1. CASE UNCHANGED vars
    BY <1>1, StutterInv
  <1>2. CASE \E p \in Process : Crash(p)
    BY <1>2, CrashInv
  <1>3. ASSUME NEW w \in Worker, SaveEvent(w) PROVE IInv'
    BY <1>3, SaveLostInv, SaveKeptInv
  <1>4. ASSUME NEW w \in Worker,
               Emit(w) \/ Hydrate(w) \/ AppendEvent(w) \/ Resume(w) \/ Load(w)
        PROVE  IInv'
    BY <1>4, EmitInv, HydrateInv, AppendEventInv, ResumeInv, LoadInv
  <1> QED
    BY <1>1, <1>2, <1>3, <1>4 DEF Next

-----------------------------------------------------------------------------
(* Theorems *)

LEMMA Invariance == WorkersApart => (Spec => []IInv)
  <1> SUFFICES ASSUME WorkersApart PROVE Spec => []IInv
    OBVIOUS
  <1>1. IInv /\ [Next]_vars => IInv'
    BY NextInv
  <1> QED
    BY <1>1, InitInv, PTL DEF Spec

\* Every variable keeps its type: rows are rows, and a thread's step, number
\* and outcome are those of an emit.
THEOREM JournalTypes == WorkersApart => (Spec => []TypeOK)
  <1>1. IInv => TypeOK
    <2> SUFFICES ASSUME IInv PROVE TypeOK
      OBVIOUS
    <2>1. PICK n \in Nat : rows \in [1..n -> Row]
      BY DEF IInv, Sized, RowsOK
    <2> QED
      BY <2>1 DEF IInv, Types, TypeOK
  <1> QED
    BY <1>1, Invariance, PTL

\* list_events and hydrate never raise: the chain of the table is unbroken
\* and its numbers have no gap, whatever the processes race over and wherever
\* they crash, if no two threads of a process emit.
THEOREM JournalStaysReadable == WorkersApart => (Spec => []JournalReadable)
  <1>1. IInv => JournalReadable
    BY SizedReadable DEF IInv, Sized, JournalReadable
  <1> QED
    BY <1>1, Invariance, PTL

\* An emit that _emit dropped had another process's event stored under its number.
THEOREM DroppedToAnother == WorkersApart => (Spec => []LostOnlyToAnother)
  <1>1. IInv => LostOnlyToAnother
    BY SizedReadable DEF IInv, Sized, EventsOK, LostOnlyToAnother
  <1> QED
    BY <1>1, Invariance, PTL
-----------------------------------------------------------------------------
(* The table is an append-only log *)

LEMMA RecordedIs ==
    ASSUME NEW n \in Nat, Sized(n)
    PROVE  /\ Recorded = [s \in 1..n |-> rows[s].event]
           /\ Recorded \in Seq(Event) /\ Len(Recorded) = n
  <1>1. rows \in [1..n -> Row] /\ DOMAIN rows = 1..n
    BY DEF Sized, RowsOK
  <1>2. Recorded = [s \in 1..n |-> rows[s].event]
    BY <1>1, IntervalCardinality DEF Recorded
  <1>3. \A s \in 1..n : rows[s].event \in Event
    BY <1>1 DEF Row
  <1>4. Recorded \in [1..n -> Event]
    BY <1>2, <1>3
  <1> QED
    BY <1>2, <1>4

LEMMA InitRecorded == Init => Abstract!LogInit
  <1> SUFFICES ASSUME Init PROVE Recorded = <<>>
    BY DEF Abstract!LogInit
  <1>1. Cardinality(DOMAIN rows) = 0
    BY FS_EmptySet DEF Init
  <1> QED
    BY <1>1 DEF Recorded

\* A kept emit records its event at the end; the event is new.
LEMMA SaveRecords ==
    ASSUME IInv, IInv', NEW w \in Worker, SaveEvent(w), sequence[w] \notin DOMAIN rows
    PROVE  Abstract!LogNext
  <1> DEFINE e == <<w, emits[w]>>
  <1>1. PICK n \in Nat : Sized(n)
    BY DEF IInv
  <1>2. Types
    BY DEF IInv
  <1>3. /\ rows' = [s \in 1..(n + 1) |-> IF s = n + 1 THEN NewRow(w, n) ELSE rows[s]]
        /\ NewRow(w, n) \in Row /\ pc[w] = "save"
    BY <1>1, <1>2, SaveKept
  <1>4. Recorded = [s \in 1..n |-> rows[s].event] /\ Recorded \in Seq(Event) /\ Len(Recorded) = n
    BY <1>1, RecordedIs
  <1>5. e \in Event /\ NewRow(w, n).event = e
    BY <1>3 DEF NewRow, Row
  <1>6. ASSUME NEW s \in 1..n
        PROVE  rows[s].event # e
    <2>1. rows[s].event[1] = w => rows[s].event[2] # emits[w]
      BY <1>1, <1>3 DEF Sized, EventsOK, Emitting
    <2> QED
      BY <2>1
  <1>7. Recorded' = Append(Recorded, e)
    <2>1. DOMAIN rows' = 1..(n + 1) /\ Cardinality(1..(n + 1)) = n + 1
      BY <1>3, IntervalCardinality
    <2>2. Recorded' = [s \in 1..(n + 1) |-> rows'[s].event]
      BY <2>1 DEF Recorded
    <2>3. Recorded' = [s \in 1..(n + 1) |-> IF s = n + 1 THEN e ELSE rows[s].event]
      BY <1>3, <1>5, <2>2
    <2>4. Append(Recorded, e) = [s \in 1..(n + 1) |-> IF s = n + 1 THEN e ELSE Recorded[s]]
      BY <1>4, <1>5
    <2>5. \A s \in 1..(n + 1) : s # n + 1 => Recorded[s] = rows[s].event
      BY <1>4
    <2> QED
      BY <2>3, <2>4, <2>5
  <1>8. \A i \in DOMAIN Recorded : Recorded[i] # e
    BY <1>4, <1>6
  <1>9. Abstract!Record(e)
    BY <1>7, <1>8 DEF Abstract!Record
  <1> QED
    BY <1>5, <1>9 DEF Abstract!LogNext

LEMMA StepRecords == IInv /\ IInv' /\ [Next]_vars => [Abstract!LogNext]_Recorded
  <1> SUFFICES ASSUME IInv, IInv', [Next]_vars PROVE Abstract!LogNext \/ UNCHANGED Recorded
    OBVIOUS
  <1>1. CASE UNCHANGED rows
    BY <1>1 DEF Recorded
  <1>2. CASE \E w \in Worker : SaveEvent(w) /\ sequence[w] \notin DOMAIN rows
    BY <1>2, SaveRecords
  <1>3. (\E w \in Worker : SaveEvent(w) /\ sequence[w] \notin DOMAIN rows) \/ UNCHANGED rows
    BY DEF Next, vars, Emit, Hydrate, AppendEvent, SaveEvent, Resume, Load, Crash
  <1> QED
    BY <1>1, <1>2, <1>3

\* The table read in sequence order only ever grows, at its end, by an event
\* it does not hold: no race of processes and no crash moves, overwrites or
\* repeats one (journal.py: "sequences never restart").
THEOREM JournalAppendsOnly == WorkersApart => (Spec => ImplementsLog)
  <1> SUFFICES ASSUME WorkersApart PROVE Spec => ImplementsLog
    OBVIOUS
  <1>1. Spec => []IInv
    BY Invariance
  <1> QED
    BY <1>1, InitRecorded, StepRecords, PTL DEF Spec, ImplementsLog, Abstract!LogSpec
=============================================================================
