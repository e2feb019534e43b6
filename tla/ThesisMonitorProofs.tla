------------------------- MODULE ThesisMonitorProofs -------------------------
(***************************************************************************)
(* Proofs about ThesisMonitor, for any set of tickers, sources and events  *)
(* and any number of crashes.                                              *)
(*                                                                         *)
(* A cursor is safe because what a tick holds in memory is: what its copy  *)
(* of the checkpoint is past has its trigger, and what it has been told    *)
(* since is in its hands, among the references it will create, or in the   *)
(* inbox.  The clock does the rest: no cursor is ahead of the present day, *)
(* and an event shown later bears a later day.                             *)
(***************************************************************************)
EXTENDS ThesisMonitor, WellFoundedInduction, TLAPS

Seen(e) == e \in dropped \/ EventRef(e) \in RefsOf(inbox)

\* A checkpoint that is not ahead of the clock and past no unseen event.
PointOK(c) ==
    /\ \A s \in Source : c.cursor[s] <= day
    /\ \A e \in Event : stamp[e] # 0 /\ stamp[e] < c.cursor[SourceOf[e]] => Seen(e)

\* What a tick was told is complete up to its cutoff.
HeardOK(w) ==
    /\ cutoff[w].day <= day /\ cutoff[w].upto <= Len(inbox)
    /\ \A e \in got[w] : stamp[e] # 0 /\ stamp[e] <= cutoff[w].day
    /\ \A e \in Event :
          SourceOf[e] \in answered[w] /\ stamp[e] # 0 /\ stamp[e] < cutoff[w].day
              => e \in got[w] \/ Seen(e)

\* What a tick was told is where its step says.
PlaceOK(w) ==
    /\ pc[w] \in {"idle", "load"} => got[w] = {} /\ answered[w] = {}
    /\ pc[w] = "create" => \A e \in got[w] : EventRef(e) \in todo[w] \cup RefsOf(inbox)
    /\ pc[w] \in {"pending", "omp", "ack", "save"} => \A e \in got[w] : EventRef(e) \in RefsOf(inbox)

TickOK(w) == PointOK(snap[w]) /\ HeardOK(w) /\ PlaceOK(w)

\* A tick about to acknowledge has seen its own run finish.
RunOK(w) ==
    /\ pc[w] \in {"omp", "ack"} => queue[w] # {} /\ run[w] \in RunId
    /\ pc[w] = "ack" => ChildOf(w) \in journal \cap recorded

IInv ==
    /\ TypeOK
    /\ PointOK(checkpoint)
    /\ \A w \in Ticker : TickOK(w) /\ RunOK(w)
    /\ AckedByItsRun

-----------------------------------------------------------------------------
(* Lemmas on the helpers *)

\* A non-empty set of numbers has a least element, which Min chooses.
LEMMA MinIsLeast ==
    ASSUME NEW S \in SUBSET Nat, S # {}
    PROVE  Min(S) \in S /\ \A n \in S : Min(S) <= n
  <1> DEFINE Less == {ss \in Nat \X Nat : ss[1] < ss[2]}
  <1>1. IsWellFoundedOn(Less, Nat)
    BY NatLessThanWellFounded DEF OpToRel
  <1>2. PICK m \in S : \A n \in S : ~(<<n, m>> \in Less)
    BY <1>1, WFMin
  <1>3. \A n \in S : m <= n
    <2> TAKE n \in S
    <2>1. n \in Nat /\ m \in Nat /\ ~(<<n, m>> \in Less)
      BY <1>2
    <2> QED
      BY <2>1
  <1> QED
    BY <1>3 DEF Min

\* A non-empty set of days has a greatest element, which Max chooses.
LEMMA MaxIsGreatest ==
    ASSUME NEW n \in Nat, NEW S \in SUBSET (0..n), S # {}
    PROVE  Max(S) \in S /\ \A d \in S : d <= Max(S)
  <1> DEFINE T == {n - d : d \in S}
  <1>0. \A d \in S : d \in Int /\ n - d \in Nat
    OBVIOUS
  <1>1. T \in SUBSET Nat /\ T # {}
    BY <1>0
  <1>2. Min(T) \in T /\ \A t \in T : Min(T) <= t
    BY <1>1, MinIsLeast
  <1>3. PICK m \in S : Min(T) = n - m
    BY <1>2
  <1>4. \A d \in S : d <= m
    <2> TAKE d \in S
    <2>1. n - d \in T
      OBVIOUS
    <2>2. n - m <= n - d
      BY <1>2, <1>3, <2>1
    <2> QED
      BY <1>0, <2>2
  <1> QED
    BY <1>4 DEF Max

LEMMA InboxEntry ==
    ASSUME TypeOK, NEW i \in DOMAIN inbox
    PROVE  inbox[i] \in Trigger
  <1>1. inbox \in Seq(Trigger)
    BY DEF TypeOK
  <1> QED
    BY <1>1

\* The trigger a tick is at is one it listed.
LEMMA FirstListed ==
    ASSUME TypeOK, NEW w \in Ticker, queue[w] # {}
    PROVE  First(w) \in queue[w] /\ First(w) \in DOMAIN inbox
  <1>1. queue[w] \subseteq DOMAIN inbox /\ DOMAIN inbox \subseteq Nat
    BY DEF TypeOK
  <1>2. First(w) \in queue[w]
    BY <1>1, MinIsLeast DEF First
  <1> QED
    BY <1>1, <1>2

\* A cursor moves to a day between 0 and the cutoff.
LEMMA CursorStateDay ==
    ASSUME TypeOK, NEW w \in Ticker, NEW s \in Source, HeardOK(w)
    PROVE  CursorState(w, s) \in Days /\ CursorState(w, s) <= cutoff[w].day
  <1> DEFINE S == {stamp[e] : e \in {x \in got[w] : SourceOf[x] = s}}
  <1>1. S \in SUBSET (0..MaxDay) /\ \A d \in S : d <= cutoff[w].day
    BY DEF TypeOK, HeardOK, Days
  <1>2. cutoff[w].day \in 0..MaxDay
    BY DEF TypeOK, Days
  <1>3. CursorState(w, s) = IF S = {} THEN cutoff[w].day ELSE Max(S)
    BY DEF CursorState
  <1>4. S # {} => Max(S) \in S
    BY <1>1, MaxIsGreatest, MonitorAssumption
  <1> QED
    BY <1>1, <1>2, <1>3, <1>4 DEF Days

\* Whatever a tick selects is a reference.
LEMMA CandidatesAreRefs ==
    ASSUME TypeOK, NEW w \in Ticker, HeardOK(w)
    PROVE  Candidates(w) \in SUBSET Ref
  <1>1. {EventRef(e) : e \in got[w]} \subseteq Ref
    BY MonitorAssumption DEF TypeOK, EventRef, Ref
  <1>2. cutoff[w].day \in Days
    BY DEF TypeOK
  <1>3. ReviewRef(cutoff[w].day) \in Ref
    BY <1>2, MonitorAssumption DEF ReviewRef, Ref
  <1>4. RefsOf(SubSeq(inbox, 1, cutoff[w].upto)) \subseteq Ref
    <2>1. cutoff[w].upto \in 0..Len(inbox)
      BY DEF TypeOK, HeardOK
    <2>2. /\ DOMAIN SubSeq(inbox, 1, cutoff[w].upto) = 1..cutoff[w].upto
          /\ \A i \in 1..cutoff[w].upto : SubSeq(inbox, 1, cutoff[w].upto)[i] = inbox[i]
      BY <2>1 DEF TypeOK
    <2>3. \A i \in 1..Len(inbox) : inbox[i].ref \in Ref
      BY InboxEntry DEF Trigger
    <2> QED
      BY <2>1, <2>2, <2>3 DEF RefsOf
  <1>5. ASSUME NEW p \in Ref, p.wraps < MaxWraps
        PROVE  Wrap(p) \in Ref
    BY <1>5, MonitorAssumption DEF Wrap, Ref
  <1>6. InvalidatorHits(w) \subseteq Ref
    BY <1>1, <1>4, <1>5 DEF InvalidatorHits
  <1> QED
    BY <1>1, <1>3, <1>6 DEF Candidates

-----------------------------------------------------------------------------
(* Types *)

LEMMA ForgetTypes ==
    ASSUME TypeOK, NEW w \in Ticker, Forget(w)
    PROVE  /\ cutoff' \in [Ticker -> [day : Days, upto : Nat]]
           /\ snap' \in [Ticker -> Checkpoint]
           /\ asked' \in [Ticker -> SUBSET Source] /\ answered' \in [Ticker -> SUBSET Source]
           /\ got' \in [Ticker -> SUBSET Event]
           /\ todo' \in [Ticker -> SUBSET Ref]
           /\ made' \in [Ticker -> BOOLEAN]
           /\ queue' \in [Ticker -> SUBSET (DOMAIN inbox)]
           /\ run' \in [Ticker -> RunId \cup {NoRun}]
  <1>1. NoCutoff \in [day : Days, upto : Nat]
    BY MonitorAssumption DEF NoCutoff, Days
  <1>2. NewCheckpoint \in Checkpoint
    BY MonitorAssumption DEF NewCheckpoint, Checkpoint, Days
  <1> QED
    BY <1>1, <1>2 DEF TypeOK, Forget

LEMMA InitTypes == Init => TypeOK
  <1> SUFFICES ASSUME Init PROVE TypeOK
    OBVIOUS
  <1>1. NoCutoff \in [day : Days, upto : Nat] /\ 0 \in Days
    BY MonitorAssumption DEF NoCutoff, Days
  <1>2. NewCheckpoint \in Checkpoint
    BY MonitorAssumption DEF NewCheckpoint, Checkpoint, Days
  <1>3. day \in Days
    BY MonitorAssumption DEF Init, Days
  <1> QED
    BY <1>1, <1>2, <1>3, MonitorAssumption DEF Init, TypeOK

\* The steps of the outside and of a child.
LEMMA OutsideTypes ==
    ASSUME TypeOK,
           \/ NextDay
           \/ \E e \in Event : Publish(e)
           \/ \E s \in Statuses : SetStatus(s)
           \/ \E k \in alive : OmpJournal(k) \/ OmpRecord(k)
    PROVE  TypeOK'
  <1>1. CASE NextDay
    <2>1. day' \in Days
      BY <1>1, MonitorAssumption DEF NextDay, TypeOK, Days
    <2> QED
      BY <1>1, <2>1 DEF NextDay, TypeOK, files, omp, local
  <1>2. ASSUME NEW e \in Event, Publish(e)
        PROVE  TypeOK'
    BY <1>2 DEF Publish, TypeOK, files, omp, local
  <1>3. ASSUME NEW s \in Statuses, SetStatus(s)
        PROVE  TypeOK'
    BY <1>3, MonitorAssumption DEF SetStatus, TypeOK, files, omp, local
  <1>4. ASSUME NEW k \in alive, OmpJournal(k) \/ OmpRecord(k)
        PROVE  TypeOK'
    BY <1>4 DEF OmpJournal, OmpRecord, TypeOK, world, files, local
  <1> QED
    BY <1>1, <1>2, <1>3, <1>4

\* The steps of a tick before it writes anything.
LEMMA ReadingTypes ==
    ASSUME TypeOK, NEW w \in Ticker, HeardOK(w),
           \/ Gate(w) \/ Load(w) \/ Select(w)
           \/ \E s \in Source : QueryAnswers(w, s) \/ QueryFails(w, s)
    PROVE  TypeOK'
  <1>1. CASE Gate(w)
    <2>1. [day |-> day, upto |-> Len(inbox)] \in [day : Days, upto : Nat]
      BY DEF TypeOK
    <2>2. cutoff' \in [Ticker -> [day : Days, upto : Nat]]
      BY <1>1, <2>1 DEF Gate, TypeOK
    <2> QED
      BY <1>1, <2>2 DEF Gate, TypeOK, world, files, omp
  <1>2. CASE Load(w)
    BY <1>2 DEF Load, TypeOK, world, files, omp
  <1>3. CASE Select(w)
    <2>1. Candidates(w) \in SUBSET Ref
      BY CandidatesAreRefs
    <2> QED
      BY <1>3, <2>1 DEF Select, TypeOK, world, files, omp
  <1>4. ASSUME NEW s \in Source, QueryAnswers(w, s)
        PROVE  TypeOK'
    <2>1. Window(w, s) \subseteq Event
      BY DEF Window
    <2> QED
      BY <1>4, <2>1 DEF QueryAnswers, TypeOK, world, files, omp
  <1>5. ASSUME NEW s \in Source, QueryFails(w, s)
        PROVE  TypeOK'
    BY <1>5 DEF QueryFails, TypeOK, world, files, omp
  <1> QED
    BY <1>1, <1>2, <1>3, <1>4, <1>5

LEMMA CreateTypes ==
    ASSUME TypeOK, NEW w \in Ticker, NEW ref \in todo[w], Create(w, ref)
    PROVE  TypeOK'
  <1>1. [ref |-> ref, status |-> "pending", run |-> NoRun] \in Trigger
    BY DEF TypeOK, Trigger
  <1>2. inbox' \in Seq(Trigger) /\ DOMAIN inbox \subseteq DOMAIN inbox'
    BY <1>1 DEF TypeOK, Create
  <1> QED
    BY <1>2 DEF Create, TypeOK, world, omp

LEMMA RunningTypes ==
    ASSUME TypeOK, NEW w \in Ticker, RunOK(w),
           ListPending(w) \/ Launch(w) \/ LaunchFails(w) \/ QueueDone(w) \/ EndRun(w)
    PROVE  TypeOK'
  <1>1. CASE ListPending(w)
    BY <1>1 DEF ListPending, Pending, TypeOK, world, files, omp
  <1>2. CASE Launch(w)
    <2>1. First(w) \in DOMAIN inbox
      BY <1>2, FirstListed DEF Launch
    <2>2. PICK r \in RunId : /\ run' = [run EXCEPT ![w] = r]
                             /\ alive' = alive \cup {<<First(w), r>>}
                             /\ journal' = journal \ {<<First(w), r>>}
                             /\ recorded' = recorded \ {<<First(w), r>>}
      BY <1>2 DEF Launch, FreshRuns
    <2> QED
      BY <1>2, <2>1, <2>2 DEF Launch, TypeOK, world, files
  <1>3. CASE LaunchFails(w)
    BY <1>3 DEF LaunchFails, TypeOK, world, files, omp
  <1>4. CASE QueueDone(w)
    BY <1>4 DEF QueueDone, TypeOK, world, files, omp, local
  <1>5. CASE EndRun(w)
    BY <1>5 DEF EndRun, TypeOK, world, files
  <1> QED
    BY <1>1, <1>2, <1>3, <1>4, <1>5

\* Acknowledging keeps the inbox but for one entry's status and run.
LEMMA AckInbox ==
    ASSUME TypeOK, NEW w \in Ticker, RunOK(w), Ack(w)
    PROVE  /\ First(w) \in DOMAIN inbox /\ run[w] \in RunId
           /\ inbox' \in Seq(Trigger) /\ DOMAIN inbox' = DOMAIN inbox
           /\ \A i \in DOMAIN inbox : inbox'[i].ref = inbox[i].ref
           /\ \A i \in DOMAIN inbox : i # First(w) => inbox'[i] = inbox[i]
           /\ inbox'[First(w)].status = "processed" /\ inbox'[First(w)].run = run[w]
  <1>1. First(w) \in DOMAIN inbox /\ run[w] \in RunId
    BY FirstListed DEF Ack, RunOK
  <1> DEFINE new == [inbox[First(w)] EXCEPT !.status = "processed", !.run = run[w]]
  <1>2. /\ new \in Trigger /\ new.ref = inbox[First(w)].ref
        /\ new.status = "processed" /\ new.run = run[w]
    BY <1>1, InboxEntry DEF Trigger
  <1>3. inbox' = [inbox EXCEPT ![First(w)] = new]
    BY <1>1 DEF Ack
  <1> HIDE DEF new
  <1> QED
    BY <1>1, <1>2, <1>3 DEF TypeOK

LEMMA WritingTypes ==
    ASSUME TypeOK, NEW w \in Ticker, HeardOK(w), RunOK(w),
           CreateRefused(w) \/ Ack(w) \/ Save(w) \/ Crash(w)
    PROVE  TypeOK'
  <1>1. CASE CreateRefused(w)
    BY <1>1, ForgetTypes DEF CreateRefused, TypeOK, world, files, omp
  <1>2. CASE Ack(w)
    BY <1>2, AckInbox DEF Ack, TypeOK, world, omp
  <1>3. CASE Save(w)
    <2>1. \A s \in Source : CursorState(w, s) \in Days
      BY CursorStateDay
    <2>2. snap[w] \in Checkpoint /\ cutoff[w].day \in Days
      BY DEF TypeOK
    <2>3. Advanced(w) \in Checkpoint
      BY <2>1, <2>2 DEF Advanced, Checkpoint
    <2>4. checkpoint' \in Checkpoint
      BY <1>3, <2>3 DEF Save, TypeOK
    <2> QED
      BY <1>3, <2>4, ForgetTypes DEF Save, TypeOK, world, omp
  <1>4. CASE Crash(w)
    BY <1>4, ForgetTypes, MonitorAssumption DEF Crash, TypeOK, world, files, omp
  <1> QED
    BY <1>1, <1>2, <1>3, <1>4

LEMMA TypeStep ==
    ASSUME IInv, [Next]_vars
    PROVE  TypeOK'
  <1>1. TypeOK /\ \A w \in Ticker : HeardOK(w) /\ RunOK(w)
    BY DEF IInv, TickOK
  <1>2. CASE UNCHANGED vars
    BY <1>1, <1>2 DEF vars, TypeOK, world, files, omp, local
  <1>3. ASSUME NEW w \in Ticker, Tick(w) \/ Crash(w)
        PROVE  TypeOK'
    BY <1>1, <1>3, ReadingTypes, CreateTypes, RunningTypes, WritingTypes DEF Tick
  <1> QED
    BY <1>1, <1>2, <1>3, OutsideTypes DEF Next

-----------------------------------------------------------------------------
(* What any step keeps *)

\* The clock does not go back, an event shows at most once, with the day it
\* is shown, and no trigger or note of a dropped event disappears.
WorldGrows ==
    /\ day <= day'
    /\ \A e \in Event : stamp'[e] = stamp[e] \/ (stamp[e] = 0 /\ stamp'[e] = day)
    /\ dropped \subseteq dropped'
    /\ RefsOf(inbox) \subseteq RefsOf(inbox')
    /\ Len(inbox) <= Len(inbox')

\* What a tick of w holds of the sources.
Holds(w) == <<cutoff[w], snap[w], answered[w], got[w]>>

LEMMA PointKept ==
    ASSUME TypeOK, TypeOK', WorldGrows, NEW c \in Checkpoint, PointOK(c)
    PROVE  /\ \A s \in Source : c.cursor[s] <= day'
           /\ \A e \in Event : stamp'[e] # 0 /\ stamp'[e] < c.cursor[SourceOf[e]] => Seen(e)'
  <1>1. day \in Int /\ day' \in Int /\ day <= day'
    BY DEF TypeOK, Days, WorldGrows
  <1>2. \A s \in Source : c.cursor[s] \in Int /\ c.cursor[s] <= day
    BY DEF Checkpoint, Days, PointOK
  <1>3. ASSUME NEW e \in Event, stamp'[e] # 0, stamp'[e] < c.cursor[SourceOf[e]]
        PROVE  Seen(e)'
    <2>1. SourceOf[e] \in Source
      BY MonitorAssumption
    <2>2. stamp'[e] = stamp[e]
      BY <1>1, <1>2, <1>3, <2>1 DEF WorldGrows
    <2>3. Seen(e)
      BY <1>3, <2>2 DEF PointOK
    <2> QED
      BY <2>3 DEF Seen, WorldGrows
  <1> QED
    BY <1>1, <1>2, <1>3

LEMMA CheckpointKept ==
    ASSUME TypeOK, TypeOK', WorldGrows, PointOK(checkpoint), checkpoint' = checkpoint
    PROVE  PointOK(checkpoint)'
  <1>1. PICK c \in Checkpoint : c = checkpoint
    BY DEF TypeOK
  <1> QED
    BY <1>1, PointKept DEF PointOK

LEMMA HeardKept ==
    ASSUME TypeOK, TypeOK', WorldGrows, NEW w \in Ticker, HeardOK(w),
           cutoff'[w] = cutoff[w], answered'[w] = answered[w], got'[w] = got[w]
    PROVE  HeardOK(w)'
  <1>1. /\ day \in Int /\ day' \in Int /\ cutoff[w].day \in Int /\ cutoff[w].upto \in Int
        /\ Len(inbox) \in Int /\ Len(inbox') \in Int
    BY DEF TypeOK, Days
  <1>2. cutoff'[w].day <= day' /\ cutoff'[w].upto <= Len(inbox')
    BY <1>1 DEF HeardOK, WorldGrows
  <1>3. \A e \in got[w] : e \in Event /\ stamp'[e] = stamp[e]
    BY DEF TypeOK, HeardOK, WorldGrows
  <1>4. ASSUME NEW e \in Event, SourceOf[e] \in answered[w], stamp'[e] # 0, stamp'[e] < cutoff[w].day
        PROVE  e \in got[w] \/ Seen(e)'
    <2>1. stamp'[e] = stamp[e]
      BY <1>1, <1>4 DEF WorldGrows, HeardOK
    <2>2. e \in got[w] \/ Seen(e)
      BY <1>4, <2>1 DEF HeardOK
    <2> QED
      BY <2>2 DEF Seen, WorldGrows
  <1> QED
    BY <1>2, <1>3, <1>4 DEF HeardOK

LEMMA SnapKept ==
    ASSUME TypeOK, TypeOK', WorldGrows, NEW w \in Ticker, PointOK(snap[w]), snap'[w] = snap[w]
    PROVE  PointOK(snap[w])'
  <1>1. PICK c \in Checkpoint : c = snap[w]
    BY DEF TypeOK
  <1> QED
    BY <1>1, PointKept DEF PointOK

\* A tick that takes no step is untouched by the steps of others.
LEMMA TickKept ==
    ASSUME TypeOK, TypeOK', WorldGrows, NEW w \in Ticker, TickOK(w),
           pc'[w] = pc[w], Holds(w)' = Holds(w), todo'[w] = todo[w]
    PROVE  TickOK(w)'
  <1>1. /\ cutoff'[w] = cutoff[w] /\ snap'[w] = snap[w]
        /\ answered'[w] = answered[w] /\ got'[w] = got[w]
    BY DEF Holds
  <1>2. PlaceOK(w)'
    BY <1>1 DEF TickOK, PlaceOK, WorldGrows
  <1> QED
    BY <1>1, <1>2, HeardKept, SnapKept DEF TickOK

LEMMA RunKept ==
    ASSUME NEW w \in Ticker, RunOK(w),
           pc'[w] = pc[w], queue'[w] = queue[w], run'[w] = run[w],
           pc[w] = "ack" /\ ChildOf(w) \in journal \cap recorded
               => ChildOf(w) \in journal' \cap recorded'
    PROVE  RunOK(w)'
  BY DEF RunOK, ChildOf, First

\* Most steps leave the triggers and what the children wrote alone.
LEMMA AckedKept ==
    ASSUME AckedByItsRun, inbox' = inbox, journal \subseteq journal', recorded \subseteq recorded'
    PROVE  AckedByItsRun'
  BY DEF AckedByItsRun

\* A tick that ends forgets what it holds.
LEMMA TickForgotten ==
    ASSUME TypeOK, TypeOK', NEW w \in Ticker, Forget(w), pc'[w] \in {"idle", "stopped"}
    PROVE  TickOK(w)' /\ RunOK(w)'
  <1>1. /\ cutoff'[w] = NoCutoff /\ snap'[w] = NewCheckpoint
        /\ answered'[w] = {} /\ got'[w] = {}
    BY DEF Forget, TypeOK
  <1>2. day' \in Nat /\ Len(inbox') \in Nat
    BY DEF TypeOK, Days
  <1>3. PointOK(snap[w])'
    <2>1. \A s \in Source : snap'[w].cursor[s] = 0
      BY <1>1 DEF NewCheckpoint
    <2>2. \A e \in Event : SourceOf[e] \in Source /\ stamp'[e] \in Nat
      BY MonitorAssumption DEF TypeOK, Days
    <2> QED
      BY <1>2, <2>1, <2>2 DEF PointOK
  <1>4. HeardOK(w)'
    <2>1. cutoff'[w].day = 0 /\ cutoff'[w].upto = 0
      BY <1>1 DEF NoCutoff
    <2>2. cutoff'[w].day <= day' /\ cutoff'[w].upto <= Len(inbox')
      BY <1>2, <2>1
    <2>3. \A e \in got'[w] : FALSE
      BY <1>1
    <2>4. \A s \in answered'[w] : FALSE
      BY <1>1
    <2> QED
      BY <2>2, <2>3, <2>4, Zenon DEF HeardOK
  <1>5. PlaceOK(w)' /\ RunOK(w)'
    BY <1>1 DEF PlaceOK, RunOK
  <1> QED
    BY <1>3, <1>4, <1>5 DEF TickOK

-----------------------------------------------------------------------------
(* The world only grows *)

LEMMA CreateGrows ==
    ASSUME TypeOK, NEW w \in Ticker, NEW ref \in todo[w], Create(w, ref)
    PROVE  /\ RefsOf(inbox') = RefsOf(inbox) \cup {ref}
           /\ Len(inbox') = Len(inbox) + 1
           /\ \A i \in DOMAIN inbox : inbox'[i] = inbox[i]
           /\ inbox'[Len(inbox) + 1].status = "pending"
  <1> DEFINE new == [ref |-> ref, status |-> "pending", run |-> NoRun]
  <1>1. inbox' = Append(inbox, new) /\ new.ref = ref /\ new.status = "pending"
    BY DEF Create
  <1> HIDE DEF new
  <1>2. inbox \in Seq(Trigger)
    BY DEF TypeOK
  <1>3. /\ Len(inbox') = Len(inbox) + 1 /\ DOMAIN inbox' = 1..(Len(inbox) + 1)
        /\ DOMAIN inbox = 1..Len(inbox) /\ Len(inbox) \in Nat
        /\ \A i \in 1..Len(inbox) : inbox'[i] = inbox[i]
        /\ inbox'[Len(inbox) + 1] = new
    BY <1>1, <1>2
  <1>4. RefsOf(inbox') = RefsOf(inbox) \cup {ref}
    <2>1. ASSUME NEW x \in RefsOf(inbox') PROVE x \in RefsOf(inbox) \cup {ref}
      BY <1>1, <1>3, <2>1 DEF RefsOf
    <2>2. ASSUME NEW x \in RefsOf(inbox) PROVE x \in RefsOf(inbox')
      BY <1>3, <2>2 DEF RefsOf
    <2>3. ref \in RefsOf(inbox')
      <3>1. Len(inbox) + 1 \in DOMAIN inbox'
        BY <1>3
      <3> QED
        BY <1>1, <1>3, <3>1 DEF RefsOf
    <2> QED
      BY <2>1, <2>2, <2>3
  <1> QED
    BY <1>1, <1>3, <1>4

LEMMA AckGrows ==
    ASSUME TypeOK, NEW w \in Ticker, RunOK(w), Ack(w)
    PROVE  RefsOf(inbox') = RefsOf(inbox) /\ Len(inbox') = Len(inbox)
  <1>1. /\ inbox \in Seq(Trigger) /\ inbox' \in Seq(Trigger) /\ DOMAIN inbox' = DOMAIN inbox
        /\ \A i \in DOMAIN inbox : inbox'[i].ref = inbox[i].ref
    BY AckInbox DEF TypeOK
  <1> QED
    BY <1>1 DEF RefsOf

LEMMA StepGrows ==
    ASSUME IInv, TypeOK', [Next]_vars
    PROVE  WorldGrows
  <1>1. TypeOK /\ day \in Int /\ stamp \in [Event -> Days] /\ Len(inbox) \in Int
    BY DEF IInv, TypeOK, Days
  <1>2. CASE UNCHANGED <<world, dropped, inbox>>
    BY <1>1, <1>2 DEF WorldGrows, world
  <1>3. CASE NextDay
    BY <1>1, <1>3 DEF NextDay, WorldGrows, files
  <1>4. ASSUME NEW e \in Event, Publish(e)
        PROVE  WorldGrows
    BY <1>1, <1>4 DEF Publish, WorldGrows, files
  <1>5. ASSUME NEW s \in Statuses, SetStatus(s)
        PROVE  WorldGrows
    BY <1>1, <1>5 DEF SetStatus, WorldGrows, files
  <1>6. ASSUME NEW w \in Ticker, NEW s \in Source, QueryAnswers(w, s)
        PROVE  WorldGrows
    BY <1>1, <1>6 DEF QueryAnswers, WorldGrows, files, world
  <1>7. ASSUME NEW w \in Ticker, NEW ref \in todo[w], Create(w, ref)
        PROVE  WorldGrows
    <2>1. /\ RefsOf(inbox') = RefsOf(inbox) \cup {ref} /\ Len(inbox') = Len(inbox) + 1
          /\ UNCHANGED <<day, stamp, dropped>>
      BY <1>1, <1>7, CreateGrows DEF Create, world
    <2> QED
      BY <1>1, <2>1 DEF WorldGrows
  <1>8. ASSUME NEW w \in Ticker, Ack(w)
        PROVE  WorldGrows
    <2>1. /\ RefsOf(inbox') = RefsOf(inbox) /\ Len(inbox') = Len(inbox)
          /\ UNCHANGED <<day, stamp, dropped>>
      BY <1>1, <1>8, AckGrows DEF Ack, world, IInv
    <2> QED
      BY <1>1, <2>1 DEF WorldGrows
  <1>9. CASE \E w \in Ticker :
                \/ Gate(w) \/ Load(w) \/ Select(w) \/ (\E s \in Source : QueryFails(w, s))
                \/ CreateRefused(w) \/ ListPending(w) \/ Launch(w) \/ LaunchFails(w)
                \/ QueueDone(w) \/ EndRun(w) \/ Save(w) \/ Crash(w)
    BY <1>2, <1>9 DEF Gate, Load, Select, QueryFails, CreateRefused, ListPending, Launch,
          LaunchFails, QueueDone, EndRun, Save, Crash, files
  <1>10. CASE UNCHANGED vars \/ \E k \in alive : OmpJournal(k) \/ OmpRecord(k)
    BY <1>2, <1>10 DEF vars, OmpJournal, OmpRecord, files
  <1> QED
    BY <1>3, <1>4, <1>5, <1>6, <1>7, <1>8, <1>9, <1>10 DEF Next, Tick

-----------------------------------------------------------------------------
(* A tick's step leaves the other tickers alone *)

LocalOf(v) == <<pc[v], cutoff[v], snap[v], answered[v], got[v], todo[v], queue[v], run[v]>>

LEMMA StepIsLocal ==
    ASSUME TypeOK, NEW w \in Ticker, Tick(w) \/ Crash(w), NEW v \in Ticker, v # w
    PROVE  LocalOf(v)' = LocalOf(v)
  <1>1. CASE Gate(w) \/ Load(w) \/ Select(w) \/ ListPending(w)
    BY <1>1 DEF Gate, Load, Select, ListPending, LocalOf, TypeOK
  <1>2. CASE \E s \in Source : QueryAnswers(w, s) \/ QueryFails(w, s)
    BY <1>2 DEF QueryAnswers, QueryFails, LocalOf, TypeOK
  <1>3. CASE \E ref \in todo[w] : Create(w, ref)
    BY <1>3 DEF Create, LocalOf, TypeOK
  <1>4. CASE CreateRefused(w) \/ Save(w) \/ Crash(w)
    BY <1>4 DEF CreateRefused, Save, Crash, Forget, LocalOf, TypeOK
  <1>5. CASE Launch(w) \/ LaunchFails(w) \/ QueueDone(w)
    BY <1>5 DEF Launch, LaunchFails, QueueDone, local, LocalOf, TypeOK
  <1>6. CASE EndRun(w) \/ Ack(w)
    BY <1>6 DEF EndRun, Ack, LocalOf, TypeOK
  <1> QED
    BY <1>1, <1>2, <1>3, <1>4, <1>5, <1>6 DEF Tick

\* No step takes back what the run of a tick that will acknowledge it wrote.
LEMMA ChildrenKept ==
    ASSUME IInv, [Next]_vars, NEW v \in Ticker, pc[v] = "ack"
    PROVE  ChildOf(v) \in journal \cap recorded => ChildOf(v) \in journal' \cap recorded'
  <1>1. CASE journal \subseteq journal' /\ recorded \subseteq recorded'
    BY <1>1
  <1>2. ASSUME NEW w \in Ticker, Launch(w)
        PROVE  ChildOf(v) \in journal \cap recorded => ChildOf(v) \in journal' \cap recorded'
    <2>1. PICK r \in RunId : /\ r # run[v]
                             /\ journal' = journal \ {<<First(w), r>>}
                             /\ recorded' = recorded \ {<<First(w), r>>}
      BY <1>2 DEF Launch, FreshRuns
    <2> QED
      BY <2>1 DEF ChildOf
  <1>3. ASSUME NEW w \in Ticker, Tick(w) \/ Crash(w), ~Launch(w)
        PROVE  journal \subseteq journal' /\ recorded \subseteq recorded'
    BY <1>3 DEF Tick, Gate, Load, Select, QueryAnswers, QueryFails, Create, CreateRefused,
          ListPending, LaunchFails, QueueDone, EndRun, Ack, Save, Crash, omp
  <1>4. CASE UNCHANGED vars \/ NextDay \/ (\E e \in Event : Publish(e))
               \/ (\E s \in Statuses : SetStatus(s)) \/ \E k \in alive : OmpJournal(k) \/ OmpRecord(k)
    BY <1>1, <1>4 DEF vars, NextDay, Publish, SetStatus, OmpJournal, OmpRecord, omp
  <1> QED
    BY <1>1, <1>2, <1>3, <1>4 DEF Next

\* Hence a ticker that takes no step stays as it is.
LEMMA OtherKept ==
    ASSUME IInv, TypeOK', [Next]_vars, NEW v \in Ticker, LocalOf(v)' = LocalOf(v)
    PROVE  TickOK(v)' /\ RunOK(v)'
  <1>1. TypeOK /\ TickOK(v) /\ RunOK(v) /\ WorldGrows
    BY StepGrows DEF IInv
  <1>2. /\ pc'[v] = pc[v] /\ Holds(v)' = Holds(v) /\ todo'[v] = todo[v]
        /\ queue'[v] = queue[v] /\ run'[v] = run[v]
    BY DEF LocalOf, Holds
  <1>3. TickOK(v)'
    BY <1>1, <1>2, TickKept
  <1>4. RunOK(v)'
    BY <1>1, <1>2, ChildrenKept, RunKept
  <1> QED
    BY <1>3, <1>4

-----------------------------------------------------------------------------
(* What a tick's step does to its own tick *)

LEMMA GateOwn ==
    ASSUME IInv, TypeOK', WorldGrows, NEW w \in Ticker, Gate(w)
    PROVE  TickOK(w)' /\ RunOK(w)'
  <1>1. TypeOK /\ TickOK(w) /\ RunOK(w)
    BY DEF IInv
  <1>2. /\ snap'[w] = snap[w] /\ answered'[w] = answered[w] /\ got'[w] = got[w]
        /\ queue'[w] = queue[w] /\ run'[w] = run[w]
        /\ UNCHANGED <<day, stamp, dropped, inbox, journal, recorded>>
    BY DEF Gate, world, files, omp
  <1>3. PointOK(snap[w])'
    BY <1>1, <1>2, SnapKept DEF TickOK
  <1>4. got[w] = {} /\ answered[w] = {} /\ pc[w] = "idle"
    BY <1>1 DEF Gate, TickOK, PlaceOK
  <1>5. CASE pc'[w] = "stopped" /\ cutoff'[w] = cutoff[w]
    <2>1. HeardOK(w)'
      BY <1>1, <1>2, <1>5, HeardKept DEF TickOK
    <2> QED
      BY <1>3, <1>5, <2>1 DEF TickOK, PlaceOK, RunOK
  <1>6. CASE pc'[w] = "load" /\ cutoff'[w] = [day |-> day, upto |-> Len(inbox)]
    <2>1. cutoff'[w].day <= day' /\ cutoff'[w].upto <= Len(inbox')
      BY <1>1, <1>2, <1>6 DEF TypeOK, Days
    <2>2. (\A e \in got'[w] : FALSE) /\ (\A x \in answered'[w] : FALSE)
      BY <1>2, <1>4
    <2>3. HeardOK(w)'
      BY <2>1, <2>2 DEF HeardOK
    <2> QED
      BY <1>2, <1>3, <1>4, <1>6, <2>3 DEF TickOK, PlaceOK, RunOK
  <1>7. \/ pc'[w] = "stopped" /\ cutoff'[w] = cutoff[w]
        \/ pc'[w] = "load" /\ cutoff'[w] = [day |-> day, upto |-> Len(inbox)]
    BY <1>1 DEF Gate, TypeOK
  <1> QED
    BY <1>5, <1>6, <1>7

LEMMA LoadOwn ==
    ASSUME IInv, TypeOK', WorldGrows, NEW w \in Ticker, Load(w)
    PROVE  TickOK(w)' /\ RunOK(w)'
  <1>1. TypeOK /\ TickOK(w) /\ PointOK(checkpoint) /\ PointOK(checkpoint)'
    BY CheckpointKept DEF IInv, Load, files
  <1>2. /\ pc'[w] = "query" /\ snap'[w] = checkpoint' /\ answered'[w] = {} /\ got'[w] = {}
        /\ cutoff'[w] = cutoff[w]
    BY <1>1 DEF Load, files, TypeOK
  <1>3. PointOK(snap[w])'
    BY <1>1, <1>2 DEF PointOK, Seen
  <1>4. (\A e \in got'[w] : FALSE) /\ (\A x \in answered'[w] : FALSE)
    BY <1>2
  <1>5. HeardOK(w)'
    <2>1. cutoff'[w].day <= day' /\ cutoff'[w].upto <= Len(inbox')
      BY <1>1, <1>2 DEF TickOK, HeardOK, Load, world, files
    <2> QED
      BY <1>4, <2>1 DEF HeardOK
  <1> QED
    BY <1>2, <1>3, <1>5 DEF TickOK, PlaceOK, RunOK

\* A query hears all of its window, or notes what its limit left out.
LEMMA QueryOwn ==
    ASSUME IInv, TypeOK', WorldGrows, NEW w \in Ticker, NEW s \in Source, QueryAnswers(w, s)
    PROVE  TickOK(w)' /\ RunOK(w)'
  <1>0. TypeOK /\ TickOK(w)
    BY DEF IInv
  <1>c. cutoff[w] \in [day : Days, upto : Nat]
    BY <1>0 DEF TypeOK
  <1>1. TypeOK /\ TickOK(w) /\ cutoff[w].day \in Int
    BY <1>0, <1>c DEF Days
  <1>2. PICK seen \in SUBSET Window(w, s) :
            got'[w] = got[w] \cup seen /\ dropped' = dropped \cup (Window(w, s) \ seen)
    BY <1>1 DEF QueryAnswers, TypeOK
  <1>3. /\ pc'[w] = "query" /\ pc[w] = "query" /\ answered'[w] = answered[w] \cup {s}
        /\ cutoff' = cutoff /\ snap'[w] = snap[w] /\ UNCHANGED <<day, stamp, inbox>>
    BY <1>1 DEF QueryAnswers, TypeOK, world, files
  <1>4. PointOK(snap[w])'
    BY <1>1, <1>3, SnapKept DEF TickOK
  <1>5. HeardOK(w)'
    <2>1. cutoff'[w].day <= day' /\ cutoff'[w].upto <= Len(inbox')
      BY <1>1, <1>3 DEF TickOK, HeardOK
    <2>2. ASSUME NEW e \in got'[w]
          PROVE  stamp'[e] # 0 /\ stamp'[e] <= cutoff'[w].day
      BY <1>1, <1>2, <1>3 DEF TickOK, HeardOK, Window
    <2>3. ASSUME NEW e \in Event, SourceOf[e] \in answered'[w], stamp'[e] # 0, stamp'[e] < cutoff'[w].day
          PROVE  e \in got'[w] \/ Seen(e)'
      <3>1. CASE SourceOf[e] \in answered[w]
        <4>1. e \in got[w] \/ Seen(e)
          BY <1>1, <1>3, <2>3, <3>1 DEF TickOK, HeardOK
        <4> QED
          BY <1>2, <1>3, <4>1 DEF Seen
      <3>2. CASE SourceOf[e] = s /\ e \in Window(w, s)
        BY <1>2, <3>2 DEF Seen
      <3>3. CASE SourceOf[e] = s /\ e \notin Window(w, s)
        <4>1. snap[w].cursor[s] \in Int /\ stamp[e] \in Int
          BY <1>1 DEF TypeOK, Checkpoint, Days
        <4>2. stamp[e] < snap[w].cursor[SourceOf[e]]
          BY <1>1, <1>3, <2>3, <3>3, <4>1 DEF Window
        <4>3. Seen(e)
          BY <1>1, <1>3, <2>3, <4>2 DEF TickOK, PointOK
        <4> QED
          BY <1>3, <4>3 DEF Seen, WorldGrows
      <3> QED
        BY <1>3, <2>3, <3>1, <3>2, <3>3
    <2> QED
      BY <2>1, <2>2, <2>3 DEF HeardOK
  <1> QED
    BY <1>3, <1>4, <1>5 DEF TickOK, PlaceOK, RunOK

LEMMA QueryFailsOwn ==
    ASSUME IInv, TypeOK', WorldGrows, NEW w \in Ticker, NEW s \in Source, QueryFails(w, s)
    PROVE  TickOK(w)' /\ RunOK(w)'
  <1>1. TypeOK /\ TickOK(w) /\ RunOK(w)
    BY DEF IInv
  <1>2. /\ pc'[w] = pc[w] /\ pc[w] = "query" /\ Holds(w)' = Holds(w) /\ todo'[w] = todo[w]
    BY DEF QueryFails, Holds
  <1> QED
    BY <1>1, <1>2, TickKept DEF RunOK

LEMMA SelectOwn ==
    ASSUME IInv, TypeOK', WorldGrows, NEW w \in Ticker, Select(w)
    PROVE  TickOK(w)' /\ RunOK(w)'
  <1>1. TypeOK /\ TickOK(w)
    BY DEF IInv
  <1>2. /\ pc'[w] = "create" /\ todo'[w] = Candidates(w) \ RefsOf(inbox)
        /\ cutoff'[w] = cutoff[w] /\ snap'[w] = snap[w] /\ answered'[w] = answered[w] /\ got'[w] = got[w]
        /\ UNCHANGED inbox
    BY <1>1 DEF Select, TypeOK, files
  <1>3. PlaceOK(w)'
    BY <1>2 DEF PlaceOK, Candidates
  <1> QED
    BY <1>1, <1>2, <1>3, SnapKept, HeardKept DEF TickOK, RunOK

LEMMA CreateOwn ==
    ASSUME IInv, TypeOK', WorldGrows, NEW w \in Ticker, NEW ref \in todo[w], Create(w, ref)
    PROVE  TickOK(w)' /\ RunOK(w)'
  <1>1. TypeOK /\ TickOK(w)
    BY DEF IInv
  <1>2. /\ pc[w] = "create" /\ pc'[w] = "create" /\ todo'[w] = todo[w] \ {ref}
        /\ cutoff'[w] = cutoff[w] /\ snap'[w] = snap[w] /\ answered'[w] = answered[w] /\ got'[w] = got[w]
    BY <1>1 DEF Create, TypeOK
  <1>3. RefsOf(inbox') = RefsOf(inbox) \cup {ref}
    BY <1>1, CreateGrows
  <1>4. PlaceOK(w)'
    BY <1>1, <1>2, <1>3 DEF TickOK, PlaceOK
  <1> QED
    BY <1>1, <1>2, <1>4, SnapKept, HeardKept DEF TickOK, RunOK

LEMMA ListOwn ==
    ASSUME IInv, TypeOK', WorldGrows, NEW w \in Ticker, ListPending(w)
    PROVE  TickOK(w)' /\ RunOK(w)'
  <1>1. TypeOK /\ TickOK(w)
    BY DEF IInv
  <1>2. /\ pc[w] = "create" /\ pc'[w] = "pending" /\ todo[w] = {} /\ UNCHANGED inbox
        /\ cutoff'[w] = cutoff[w] /\ snap'[w] = snap[w] /\ answered'[w] = answered[w] /\ got'[w] = got[w]
    BY <1>1 DEF ListPending, TypeOK, files
  <1>3. PlaceOK(w)'
    BY <1>1, <1>2 DEF TickOK, PlaceOK
  <1> QED
    BY <1>1, <1>2, <1>3, SnapKept, HeardKept DEF TickOK, RunOK

\* The steps that run the queue, up to the acknowledgement.
LEMMA QueueOwn ==
    ASSUME IInv, TypeOK', WorldGrows, NEW w \in Ticker,
           Launch(w) \/ LaunchFails(w) \/ QueueDone(w) \/ EndRun(w) \/ Ack(w)
    PROVE  TickOK(w)' /\ RunOK(w)'
  <1>1. TypeOK /\ TickOK(w) /\ RunOK(w)
    BY DEF IInv
  <1>2. /\ pc[w] \in {"pending", "omp", "ack"} /\ pc'[w] \in {"pending", "omp", "ack", "save"}
        /\ cutoff'[w] = cutoff[w] /\ snap'[w] = snap[w] /\ answered'[w] = answered[w] /\ got'[w] = got[w]
    BY <1>1 DEF Launch, LaunchFails, QueueDone, EndRun, Ack, local, TypeOK
  <1>3. PlaceOK(w)'
    BY <1>1, <1>2 DEF TickOK, PlaceOK, WorldGrows
  <1>4. CASE Launch(w)
    <2>1. pc'[w] = "omp" /\ queue'[w] = queue[w] /\ queue[w] # {} /\ run'[w] \in RunId
      BY <1>1, <1>4 DEF Launch, TypeOK, FreshRuns
    <2> QED
      BY <1>1, <1>2, <1>3, <2>1, SnapKept, HeardKept DEF TickOK, RunOK
  <1>5. CASE EndRun(w) /\ pc'[w] = "ack"
    <2>1. /\ queue'[w] = queue[w] /\ run'[w] = run[w] /\ pc[w] = "omp"
          /\ ChildOf(w) \in journal' /\ ChildOf(w) \in recorded'
      BY <1>1, <1>5 DEF EndRun, HasJournal, TypeOK
    <2>2. RunOK(w)'
      BY <1>1, <1>5, <2>1 DEF RunOK, ChildOf, First
    <2> QED
      BY <1>1, <1>2, <1>3, <2>2, SnapKept, HeardKept DEF TickOK
  <1>6. CASE pc'[w] \in {"pending", "save"}
    BY <1>1, <1>2, <1>3, <1>6, SnapKept, HeardKept DEF TickOK, RunOK
  <1>7. Launch(w) \/ (EndRun(w) /\ pc'[w] = "ack") \/ pc'[w] \in {"pending", "save"}
    BY <1>1 DEF LaunchFails, QueueDone, EndRun, Ack, TypeOK
  <1> QED
    BY <1>4, <1>5, <1>6, <1>7

\* A tick that ends without being done.
LEMMA EndOwn ==
    ASSUME IInv, TypeOK', NEW w \in Ticker, CreateRefused(w) \/ Save(w) \/ Crash(w)
    PROVE  TickOK(w)' /\ RunOK(w)'
  <1>1. TypeOK /\ Forget(w) /\ pc'[w] \in {"idle", "stopped"}
    BY DEF IInv, CreateRefused, Save, Crash, TypeOK
  <1> QED
    BY <1>1, TickForgotten

LEMMA OwnStep ==
    ASSUME IInv, TypeOK', WorldGrows, NEW w \in Ticker, Tick(w) \/ Crash(w)
    PROVE  TickOK(w)' /\ RunOK(w)'
  BY GateOwn, LoadOwn, QueryOwn, QueryFailsOwn, SelectOwn, CreateOwn, ListOwn, QueueOwn, EndOwn DEF Tick

-----------------------------------------------------------------------------
(* The checkpoint and the acknowledgements *)

\* A tick saves cursors that are past nothing it did not turn into a trigger.
LEMMA AdvancedOK ==
    ASSUME TypeOK, NEW w \in Ticker, TickOK(w), pc[w] = "save"
    PROVE  PointOK(Advanced(w))
  <1>1. /\ cutoff[w].day \in Int /\ day \in Int /\ cutoff[w].day <= day
        /\ \A e \in Event : stamp[e] \in Int /\ SourceOf[e] \in Source
    BY MonitorAssumption DEF TypeOK, Days, TickOK, HeardOK
  <1>2. \A s \in Source : CursorState(w, s) \in Int /\ CursorState(w, s) <= cutoff[w].day
    BY CursorStateDay DEF TickOK, Days
  <1>3. \A s \in Source : snap[w].cursor[s] <= day
    BY DEF TickOK, PointOK
  <1>4. \A s \in Source :
            Advanced(w).cursor[s] = IF s \in answered[w] THEN CursorState(w, s) ELSE snap[w].cursor[s]
    BY DEF Advanced
  <1>5. \A s \in Source : Advanced(w).cursor[s] <= day
    BY <1>1, <1>2, <1>3, <1>4
  <1>6. ASSUME NEW e \in Event, stamp[e] # 0, stamp[e] < Advanced(w).cursor[SourceOf[e]]
        PROVE  Seen(e)
    <2>1. CASE SourceOf[e] \in answered[w]
      <3>1. stamp[e] < cutoff[w].day
        BY <1>1, <1>2, <1>4, <1>6, <2>1
      <3>2. e \in got[w] \/ Seen(e)
        BY <1>6, <2>1, <3>1 DEF TickOK, HeardOK
      <3> QED
        BY <3>2 DEF TickOK, PlaceOK, Seen
    <2>2. CASE SourceOf[e] \notin answered[w]
      BY <1>1, <1>4, <1>6, <2>2 DEF TickOK, PointOK
    <2> QED
      BY <2>1, <2>2
  <1> QED
    BY <1>5, <1>6 DEF PointOK

LEMMA CheckpointStep ==
    ASSUME IInv, TypeOK', WorldGrows, [Next]_vars
    PROVE  PointOK(checkpoint)'
  <1>1. TypeOK /\ PointOK(checkpoint)
    BY DEF IInv
  <1>2. CASE checkpoint' = checkpoint
    BY <1>1, <1>2, CheckpointKept
  <1>3. ASSUME NEW w \in Ticker, Save(w), checkpoint' # checkpoint
        PROVE  PointOK(checkpoint)'
    <2>1. PointOK(Advanced(w))
      BY <1>1, <1>3, AdvancedOK DEF IInv, Save
    <2>2. checkpoint' = Advanced(w) /\ UNCHANGED <<day, stamp, dropped, inbox>>
      BY <1>3 DEF Save, world
    <2> QED
      BY <2>1, <2>2 DEF PointOK, Seen
  <1>4. checkpoint' = checkpoint \/ \E w \in Ticker : Save(w)
    <2>1. ASSUME NEW w \in Ticker, Tick(w)
          PROVE  checkpoint' = checkpoint \/ Save(w)
      BY <2>1 DEF Tick, Gate, Load, Select, QueryAnswers, QueryFails, Create, CreateRefused, ListPending,
         Launch, LaunchFails, QueueDone, EndRun, Ack, files
    <2>2. ASSUME NEW w \in Ticker, Crash(w)
          PROVE  checkpoint' = checkpoint
      BY <2>2 DEF Crash, files
    <2>3. CASE NextDay \/ (\E e \in Event : Publish(e)) \/ (\E s \in Statuses : SetStatus(s))
      BY <2>3 DEF NextDay, Publish, SetStatus, files
    <2>4. CASE \E k \in alive : OmpJournal(k) \/ OmpRecord(k)
      BY <2>4 DEF OmpJournal, OmpRecord, files
    <2>5. CASE UNCHANGED vars
      BY <2>5 DEF vars, files
    <2> QED
      BY <2>1, <2>2, <2>3, <2>4, <2>5 DEF Next
  <1> QED
    BY <1>2, <1>3, <1>4

LEMMA AckedStep ==
    ASSUME IInv, [Next]_vars
    PROVE  AckedByItsRun'
  <1>1. TypeOK /\ AckedByItsRun /\ \A w \in Ticker : RunOK(w)
    BY DEF IInv
  <1>2. CASE inbox' = inbox /\ journal \subseteq journal' /\ recorded \subseteq recorded'
    BY <1>1, <1>2, AckedKept
  <1>3. ASSUME NEW w \in Ticker, NEW ref \in todo[w], Create(w, ref)
        PROVE  AckedByItsRun'
    <2>1. /\ Len(inbox') = Len(inbox) + 1 /\ \A i \in DOMAIN inbox : inbox'[i] = inbox[i]
          /\ inbox'[Len(inbox) + 1].status = "pending"
      BY <1>1, <1>3, CreateGrows
    <2>2. DOMAIN inbox' = DOMAIN inbox \cup {Len(inbox) + 1}
      BY <1>1, <1>3 DEF Create, TypeOK
    <2> QED
      BY <1>1, <1>3, <2>1, <2>2 DEF AckedByItsRun, Create, omp
  <1>4. ASSUME NEW w \in Ticker, Launch(w)
        PROVE  AckedByItsRun'
    <2>1. PICK r \in RunId : /\ r # inbox[First(w)].run
                             /\ journal' = journal \ {<<First(w), r>>}
                             /\ recorded' = recorded \ {<<First(w), r>>}
      BY <1>4 DEF Launch, FreshRuns
    <2> QED
      BY <1>1, <1>4, <2>1 DEF AckedByItsRun, Launch, files
  <1>5. ASSUME NEW w \in Ticker, Ack(w)
        PROVE  AckedByItsRun'
    <2>1. ChildOf(w) \in journal \cap recorded /\ UNCHANGED <<journal, recorded>>
      BY <1>1, <1>5 DEF Ack, RunOK, omp
    <2>2. /\ DOMAIN inbox' = DOMAIN inbox
          /\ \A i \in DOMAIN inbox : i # First(w) => inbox'[i] = inbox[i]
          /\ inbox'[First(w)].run = run[w]
      BY <1>1, <1>5, AckInbox
    <2> QED
      BY <1>1, <2>1, <2>2 DEF AckedByItsRun, ChildOf
  <1>6. ASSUME NEW w \in Ticker,
               Tick(w) \/ Crash(w), ~Launch(w), ~Ack(w), ~(\E ref \in todo[w] : Create(w, ref))
        PROVE  inbox' = inbox /\ journal \subseteq journal' /\ recorded \subseteq recorded'
    BY <1>6 DEF Tick, Gate, Load, Select, QueryAnswers, QueryFails, CreateRefused,
          ListPending, LaunchFails, QueueDone, EndRun, Save, Crash, files, omp
  <1>7. CASE UNCHANGED vars \/ NextDay \/ (\E e \in Event : Publish(e))
               \/ (\E s \in Statuses : SetStatus(s)) \/ \E k \in alive : OmpJournal(k) \/ OmpRecord(k)
    BY <1>2, <1>7 DEF vars, NextDay, Publish, SetStatus, OmpJournal, OmpRecord, files, omp
  <1> QED
    BY <1>2, <1>3, <1>4, <1>5, <1>6, <1>7 DEF Next

-----------------------------------------------------------------------------
(* Theorems *)

LEMMA InitInv == Init => IInv
  <1> SUFFICES ASSUME Init PROVE IInv
    OBVIOUS
  <1>1. TypeOK
    BY InitTypes
  <1>2. inbox = <<>> /\ \A e \in Event : stamp[e] = 0
    BY DEF Init
  <1>3. AckedByItsRun
    BY <1>2 DEF AckedByItsRun
  <1>4. day \in Int /\ day = 1 /\ \A s \in Source : checkpoint.cursor[s] = 0
    BY DEF Init, NewCheckpoint
  <1>5. PointOK(checkpoint)
    BY <1>2, <1>4 DEF PointOK
  <1>6. ASSUME NEW w \in Ticker
        PROVE  TickOK(w) /\ RunOK(w)
    <2>1. /\ pc[w] = "idle" /\ snap[w] = checkpoint /\ got[w] = {} /\ answered[w] = {}
          /\ cutoff[w].day = 0 /\ cutoff[w].upto = 0 /\ Len(inbox) = 0
      BY <1>2 DEF Init, NoCutoff
    <2>2. PointOK(snap[w])
      BY <1>5, <2>1
    <2>3. HeardOK(w)
      BY <1>2, <1>4, <2>1 DEF HeardOK
    <2> QED
      BY <2>1, <2>2, <2>3 DEF TickOK, PlaceOK, RunOK
  <1> QED
    BY <1>1, <1>3, <1>5, <1>6 DEF IInv

LEMMA StepKeepsInv == IInv /\ [Next]_vars => IInv'
  <1> SUFFICES ASSUME IInv, [Next]_vars PROVE IInv'
    OBVIOUS
  <1>1. TypeOK /\ TypeOK' /\ WorldGrows
    BY TypeStep, StepGrows DEF IInv
  <1>2. ASSUME NEW w \in Ticker, Tick(w) \/ Crash(w), NEW v \in Ticker
        PROVE  TickOK(v)' /\ RunOK(v)'
    <2>1. CASE v = w
      BY <1>1, <1>2, <2>1, OwnStep
    <2>2. CASE v # w
      BY <1>1, <1>2, <2>2, StepIsLocal, OtherKept
    <2> QED
      BY <2>1, <2>2
  <1>3. ASSUME UNCHANGED local /\ UNCHANGED pc, NEW v \in Ticker
        PROVE  TickOK(v)' /\ RunOK(v)'
    <2>1. LocalOf(v)' = LocalOf(v)
      BY <1>3 DEF LocalOf, local
    <2> QED
      BY <1>1, <2>1, OtherKept
  <1>4. (\E w \in Ticker : Tick(w) \/ Crash(w)) \/ (UNCHANGED local /\ UNCHANGED pc)
    BY DEF Next, vars, NextDay, Publish, SetStatus, OmpJournal, OmpRecord
  <1> QED
    BY <1>1, <1>2, <1>3, <1>4, CheckpointStep, AckedStep DEF IInv

THEOREM Invariance == Spec => []IInv
  BY InitInv, StepKeepsInv, PTL DEF Spec

\* The variables keep their types, however many tickers share a thesis
\* (app/thesis/repository.py: one lock per file operation, none per tick).
THEOREM TypesKept == Spec => []TypeOK
  <1>1. IInv => TypeOK
    BY DEF IInv
  <1> QED
    BY <1>1, Invariance, PTL

\* An event behind the cursor of its source has its trigger, or was left out
\* by a query's limit: also when several tickers write the checkpoint back
\* from old copies, and wherever one of them dies (_advance_checkpoint runs
\* after _persist_triggers).
THEOREM NothingLost == Spec => []NoEventLost
  <1>1. IInv => NoEventLost
    BY DEF IInv, PointOK, NoEventLost, Seen
  <1> QED
    BY <1>1, Invariance, PTL

\* A processed trigger names a run of its own that completed and wrote its
\* journal entry, whoever else ran the trigger (run_trigger, _await_omp).
THEOREM Acknowledged == Spec => []AckedByItsRun
  <1>1. IInv => AckedByItsRun
    BY DEF IInv
  <1> QED
    BY <1>1, Invariance, PTL

-----------------------------------------------------------------------------
(* A single ticker keeps the promise of TriggerInbox *)

OneTicker == \A v, w \in Ticker : v = w

\* The inbox changes under no tick's feet: what it will create is not there,
\* what it listed is still pending.
SoloOK ==
    \A w \in Ticker :
        /\ pc[w] = "create" => todo[w] \cap RefsOf(inbox) = {}
        /\ \A i \in queue[w] : inbox[i].status = "pending"

Solo == IInv /\ SoloOK

\* The inbox as TriggerInbox sees it.
AckedBy(i) == IF inbox[i].status = "processed" THEN inbox[i].run ELSE NoRun
Triggers == [i \in DOMAIN inbox |-> [ref |-> inbox[i].ref, by |-> AckedBy(i)]]

LEMMA SoloStep ==
    ASSUME OneTicker, Solo, IInv', [Next]_vars
    PROVE  SoloOK'
  <1>1. TypeOK /\ SoloOK
    BY DEF Solo, IInv
  <1>2. CASE UNCHANGED <<pc, inbox, todo, queue>>
    BY <1>1, <1>2 DEF SoloOK
  <1>3. CASE UNCHANGED vars \/ NextDay \/ (\E e \in Event : Publish(e))
               \/ (\E s \in Statuses : SetStatus(s)) \/ \E k \in alive : OmpJournal(k) \/ OmpRecord(k)
    BY <1>2, <1>3 DEF vars, NextDay, Publish, SetStatus, OmpJournal, OmpRecord, files, local
  <1>4. ASSUME NEW w \in Ticker, Tick(w) \/ Crash(w)
        PROVE  SoloOK'
    <2>1. \A v \in Ticker : v = w
      BY DEF OneTicker
    <2>2. CASE Select(w)
      BY <1>1, <2>1, <2>2 DEF Select, SoloOK, TypeOK, files
    <2>3. CASE ListPending(w)
      BY <1>1, <2>1, <2>3 DEF ListPending, SoloOK, TypeOK, files, Pending, IsPending
    <2>4. ASSUME NEW ref \in todo[w], Create(w, ref)
          PROVE  SoloOK'
      <3>1. /\ RefsOf(inbox') = RefsOf(inbox) \cup {ref}
            /\ \A i \in DOMAIN inbox : inbox'[i] = inbox[i]
        BY <1>1, <2>4, CreateGrows
      <3>2. queue[w] \subseteq DOMAIN inbox
        BY <1>1 DEF TypeOK
      <3> QED
        BY <1>1, <2>1, <2>4, <3>1, <3>2 DEF Create, SoloOK, TypeOK
    <2>5. CASE Ack(w)
      <3>1. \A i \in DOMAIN inbox : i # First(w) => inbox'[i] = inbox[i]
        BY <1>1, <2>5, AckInbox DEF Solo, IInv
      <3>2. queue'[w] = queue[w] \ {First(w)} /\ pc'[w] = "pending" /\ queue[w] \subseteq DOMAIN inbox
        BY <1>1, <2>5 DEF Ack, TypeOK
      <3> QED
        BY <1>1, <2>1, <3>1, <3>2 DEF SoloOK
    <2>6. CASE ~Select(w) /\ ~ListPending(w) /\ ~Ack(w) /\ ~(\E ref \in todo[w] : Create(w, ref))
      <3>1. UNCHANGED inbox /\ pc'[w] # "create" /\ queue'[w] \subseteq queue[w]
        BY <1>1, <1>4, <2>6 DEF Tick, Gate, Load, QueryAnswers, QueryFails, CreateRefused, Launch,
              LaunchFails, QueueDone, EndRun, Save, Crash, Forget, files, local, TypeOK
      <3> QED
        BY <1>1, <2>1, <3>1 DEF SoloOK
    <2> QED
      BY <2>2, <2>3, <2>4, <2>5, <2>6
  <1> QED
    BY <1>3, <1>4 DEF Next

LEMMA CreateAdds ==
    ASSUME Solo, NEW w \in Ticker, NEW ref \in todo[w], Create(w, ref)
    PROVE  Inbox!Add(ref) /\ ref \in Ref
  <1>1. TypeOK /\ SoloOK /\ inbox \in Seq(Trigger)
    BY DEF Solo, IInv, TypeOK
  <1>0. PICK n \in Nat : n = Len(inbox)
    BY <1>1
  <1>2. /\ Len(inbox') = n + 1 /\ DOMAIN inbox = 1..n /\ Len(inbox) = n
        /\ DOMAIN inbox' = 1..(n + 1)
        /\ \A i \in 1..n : inbox'[i] = inbox[i]
        /\ inbox'[n + 1] = [ref |-> ref, status |-> "pending", run |-> NoRun]
    BY <1>0, <1>1 DEF Create
  <1>3. /\ Triggers \in Seq([ref : Ref, by : RunId \cup {NoRun}]) /\ Len(Triggers) = n
        /\ \A i \in 1..n : Triggers[i] = [ref |-> inbox[i].ref, by |-> AckedBy(i)]
    <2>1. \A i \in 1..n : inbox[i] \in Trigger
      BY <1>1, <1>2, InboxEntry
    <2>2. \A i \in 1..n : [ref |-> inbox[i].ref, by |-> AckedBy(i)] \in [ref : Ref, by : RunId \cup {NoRun}]
      BY <2>1 DEF Trigger, AckedBy
    <2> QED
      BY <1>2, <2>2 DEF Triggers
  <1> DEFINE new == [ref |-> ref, by |-> NoRun]
  <1>4. Triggers' = [i \in 1..(n + 1) |-> IF i = n + 1 THEN new ELSE Triggers[i]]
    <2>1. Triggers' = [i \in 1..(n + 1) |-> [ref |-> inbox'[i].ref, by |-> AckedBy(i)']]
      BY <1>2 DEF Triggers
    <2>2. \A i \in 1..n : [ref |-> inbox'[i].ref, by |-> AckedBy(i)'] = Triggers[i]
      BY <1>2, <1>3 DEF AckedBy
    <2>3. [ref |-> inbox'[n + 1].ref, by |-> AckedBy(n + 1)'] = new
      BY <1>2 DEF AckedBy
    <2> QED
      BY <1>2, <2>1, <2>2, <2>3
  <1>5. Triggers' = Append(Triggers, new)
    BY <1>3, <1>4
  <1>6. \A i \in DOMAIN Triggers : Triggers[i].ref # ref
    <2>1. todo[w] \cap RefsOf(inbox) = {}
      BY <1>1 DEF SoloOK, Create
    <2>2. \A i \in 1..n : inbox[i].ref \in RefsOf(inbox)
      BY <1>2 DEF RefsOf
    <2>3. DOMAIN Triggers = 1..n /\ \A i \in 1..n : Triggers[i].ref = inbox[i].ref
      BY <1>2, <1>3
    <2> QED
      BY <2>1, <2>2, <2>3
  <1>7. ref \in Ref
    BY <1>1 DEF TypeOK
  <1> QED
    BY <1>5, <1>6, <1>7 DEF Inbox!Add, Triggers, AckedBy

LEMMA AckAcknowledges ==
    ASSUME Solo, NEW w \in Ticker, Ack(w)
    PROVE  \E i \in DOMAIN Triggers, r \in RunId : Inbox!Acknowledge(i, r)
  <1>1. TypeOK /\ SoloOK /\ RunOK(w) /\ pc[w] = "ack"
    BY DEF Solo, IInv, Ack
  <1>2. /\ First(w) \in DOMAIN inbox /\ run[w] \in RunId /\ DOMAIN inbox' = DOMAIN inbox
        /\ \A i \in DOMAIN inbox : inbox'[i].ref = inbox[i].ref
        /\ \A i \in DOMAIN inbox : i # First(w) => inbox'[i] = inbox[i]
        /\ inbox'[First(w)].status = "processed" /\ inbox'[First(w)].run = run[w]
    BY <1>1, AckInbox
  <1>3. inbox[First(w)].status = "pending"
    <2>1. First(w) \in queue[w]
      BY <1>1, FirstListed DEF RunOK
    <2> QED
      BY <1>1, <2>1 DEF SoloOK
  <1>4. Triggers[First(w)].by = NoRun
    BY <1>2, <1>3 DEF Triggers, AckedBy
  <1>5. \A i \in DOMAIN inbox : AckedBy(i)' = IF i = First(w) THEN run[w] ELSE AckedBy(i)
    BY <1>2 DEF AckedBy
  <1>6. Triggers' = [i \in DOMAIN inbox |-> [ref |-> inbox[i].ref, by |-> IF i = First(w) THEN run[w] ELSE AckedBy(i)]]
    BY <1>2, <1>5 DEF Triggers
  <1>7. Triggers' = [Triggers EXCEPT ![First(w)].by = run[w]]
    BY <1>2, <1>6 DEF Triggers
  <1>8. PICK i \in DOMAIN Triggers, r \in RunId : i = First(w) /\ r = run[w]
    BY <1>2 DEF Triggers
  <1>9. Triggers[i].by = NoRun /\ Triggers' = [Triggers EXCEPT ![i].by = r]
    BY <1>4, <1>7, <1>8
  <1>10. Inbox!Acknowledge(i, r)
    BY <1>9 DEF Inbox!Acknowledge, Triggers, AckedBy
  <1> QED
    BY <1>10

LEMMA StepRefines ==
    ASSUME Solo, [Next]_vars
    PROVE  [Inbox!Next]_Triggers
  <1>1. CASE UNCHANGED inbox
    BY <1>1 DEF Triggers, AckedBy
  <1>2. ASSUME NEW w \in Ticker, NEW ref \in todo[w], Create(w, ref)
        PROVE  Inbox!Next
    BY <1>2, CreateAdds DEF Inbox!Next
  <1>3. ASSUME NEW w \in Ticker, Ack(w)
        PROVE  Inbox!Next
    <2>1. \E i \in DOMAIN Triggers, r \in RunId : Inbox!Acknowledge(i, r)
      BY <1>3, AckAcknowledges
    <2> QED
      BY <2>1 DEF Inbox!Next, Triggers, AckedBy
  <1>4. UNCHANGED inbox \/ \E w \in Ticker : Ack(w) \/ \E ref \in todo[w] : Create(w, ref)
    BY DEF Next, vars, Tick, NextDay, Publish, SetStatus, OmpJournal, OmpRecord, Gate, Load, Select,
       QueryAnswers, QueryFails, CreateRefused, ListPending, Launch, LaunchFails, QueueDone,
       EndRun, Save, Crash, files
  <1> QED
    BY <1>1, <1>2, <1>3, <1>4

\* A single ticker appends one trigger per reference and has each of them
\* acknowledged once, through failures and crashes ("duplicate-safe ticks").
THEOREM InboxKept == OneTicker => (Spec => ImplementsInbox)
  <1> SUFFICES ASSUME OneTicker PROVE Spec => ImplementsInbox
    OBVIOUS
  <1>1. Init => Solo /\ Inbox!Init
    <2> SUFFICES ASSUME Init PROVE Solo /\ Inbox!Init
      OBVIOUS
    <2>1. IInv /\ SoloOK
      BY InitInv DEF SoloOK, Init
    <2>2. Triggers = <<>>
      BY DEF Init, Triggers
    <2> QED
      BY <2>1, <2>2 DEF Solo, Inbox!Init, Triggers, AckedBy
  <1>2. Solo /\ [Next]_vars => Solo' /\ [Inbox!Next]_Triggers
    BY StepKeepsInv, SoloStep, StepRefines DEF Solo
  <1>3. Spec => [][Inbox!Next]_Triggers
    BY <1>1, <1>2, PTL DEF Spec
  <1> QED
    BY <1>1, <1>3, PTL DEF Spec, ImplementsInbox, Inbox!Spec, Triggers, AckedBy
=============================================================================
