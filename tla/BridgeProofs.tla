---------------------------- MODULE BridgeProofs ----------------------------
(***************************************************************************)
(* Proofs about Bridge, for any number of tool calls, events, permits,     *)
(* bridges, losses and storage errors.                                     *)
(*                                                                         *)
(* Three things hold the run together: a call is waiting exactly while it  *)
(* is in the permit queue, and permits and holders add up; what the        *)
(* present bridge has of a tool call belongs to a call that still holds    *)
(* its permit; and agent_start is the first line of the run, so that no    *)
(* bridge that ended a run can learn of it again.                          *)
(***************************************************************************)
EXTENDS Bridge, FiniteSetTheorems, SequenceTheorems, TLAPS

HoldingTools == {t \in Tool : call[t] \in Holding}
InLine == {bridge.stdin[i] : i \in DOMAIN bridge.stdin}
Busy == {"pending", "terminating"}
Unsent == {"new", "waiting", "granted"}
Nothing == InLine \cap Tool = {} /\ Unfinished = {}

\* The permit queue.
QueueOK ==
    /\ \A q \in Request : call[q] = "waiting" => q \in Tool
    /\ \A i \in DOMAIN permitQueue : call[permitQueue[i]] = "waiting"
    /\ \A i, j \in DOMAIN permitQueue : permitQueue[i] = permitQueue[j] => i = j

\* What the bridge has of tool calls.
BridgeOK ==
    /\ proc = 0 => bridge = NewBridge
    /\ closed => proc = 0
    /\ \A q \in InLine : call[q] \notin Unsent
    /\ \A i, j \in DOMAIN bridge.stdin : bridge.stdin[i] = bridge.stdin[j] => i = j
    /\ \A t \in Tool : t \in InLine \cup Unfinished => call[t] \in Busy
    /\ \A t \in Tool : t \in InLine => bridge.fut[t] = "none"
    /\ \A t \in Tool : bridge.fut[t] # "none" => call[t] \notin Unsent
    /\ AcceptedCallHasSession

\* A terminated run has tool calls only on the bridge it is about to lose.
TermOK == Terminated /\ (term # "first" \/ termChild # proc) => Nothing

\* agent_start is the first call of the run, and its line is the first of a bridge's.
FirstOK ==
    call[Start] = "new" => /\ \A q \in Request : call[q] = "new"
                           /\ proc = 0 /\ row = "none" /\ term = "none"

StartOK ==
    /\ \A i \in DOMAIN bridge.stdin : bridge.stdin[i] = Start => i = 1
    /\ bridge.main # "idle" => Start \notin InLine

\* The row of the run and the recorder of the present bridge.
RowOK ==
    /\ bridge.recorder = "on" => row = "open"
    /\ row = "completed" => ~bridge.session /\ Start \notin InLine /\ Unfinished = {}

IInv == TypeOK /\ PermitsConserved /\ QueueOK /\ BridgeOK /\ TermOK /\ FirstOK /\ StartOK /\ RowOK

-----------------------------------------------------------------------------
(* The permits *)

LEMMA ToolsFinite == IsFiniteSet(Tool)
  BY BridgeAssumption

LEMMA HoldingFinite ==
    IsFiniteSet(HoldingTools) /\ Cardinality(HoldingTools) \in Nat
  BY ToolsFinite, FS_Subset, FS_CardinalityType DEF HoldingTools

\* The first k of a queue without repetitions are k calls.
LEMMA FirstOfQueue ==
    ASSUME NEW pq \in Seq(Tool), NEW k \in 0..Len(pq),
           \A i, j \in 1..Len(pq) : pq[i] = pq[j] => i = j
    PROVE  LET W == {pq[i] : i \in 1..k} IN IsFiniteSet(W) /\ Cardinality(W) = k
  <1> DEFINE W == {pq[i] : i \in 1..k}
             f == [i \in 1..k |-> pq[i]]
  <1>1. IsFiniteSet(1..k) /\ Cardinality(1..k) = k
    BY FS_Interval
  <1>2. f \in Surjection(1..k, W)
    BY DEF Surjection
  <1>3. f \in Injection(1..k, W)
    <2>1. f \in [1..k -> W]
      OBVIOUS
    <2>2. \A a, b \in 1..k : f[a] = f[b] => a = b
      OBVIOUS
    <2> QED
      BY <2>1, <2>2 DEF Injection, IsInjective
  <1> HIDE DEF f, W
  <1>4. IsFiniteSet(W) /\ Cardinality(W) = Cardinality(1..k)
    BY <1>1, <1>2, <1>3, FS_Surjection
  <1> QED
    BY <1>1, <1>4 DEF W

\* What is left of a finite set when a part of it goes.
LEMMA CardinalityWithout ==
    ASSUME NEW A, NEW B, IsFiniteSet(A), B = A \cap B, NEW n, n = Cardinality(B)
    PROVE  IsFiniteSet(A \ B) /\ Cardinality(A \ B) = Cardinality(A) - n
  <1>1. Cardinality(A \ B) = Cardinality(A) - Cardinality(A \cap B)
    BY FS_Difference
  <1>2. Cardinality(A \cap B) = n
    OBVIOUS
  <1>3. IsFiniteSet(A \ B)
    BY FS_Difference
  <1> QED
    BY <1>1, <1>2, <1>3

\* What a finite set and a disjoint one have together.
LEMMA CardinalityWith ==
    ASSUME NEW A, NEW B, IsFiniteSet(A), IsFiniteSet(B), A \cap B = {}, NEW n, n = Cardinality(B)
    PROVE  Cardinality(A \cup B) = Cardinality(A) + n
  <1>1. Cardinality(A \cup B) = Cardinality(A) + Cardinality(B) - Cardinality(A \cap B)
    BY FS_Union
  <1>2. Cardinality(A \cap B) = 0
    BY FS_EmptySet
  <1>3. Cardinality(A) \in Nat /\ Cardinality(B) \in Nat
    BY FS_CardinalityType
  <1> QED
    BY <1>1, <1>2, <1>3

\* Calls that end give back what they held, and what is given back is passed
\* on to as many waiting calls as there are.
LEMMA SettleCounts ==
    ASSUME TypeOK, QueueOK, NEW S \in SUBSET Request, NEW o \in Settled,
           \A q \in S : call[q] # "waiting", Settle(S, o)
    PROVE  /\ call' \in [Request -> CallStates] /\ permits' \in Int /\ permitQueue' \in Seq(Tool)
           /\ \A q \in S : call'[q] = o
           /\ \A q \in Request \ S : call'[q] = call[q] \/ (call[q] = "waiting" /\ call'[q] = "granted")
           /\ QueueOK'
           /\ permits' + Cardinality(HoldingTools') = permits + Cardinality(HoldingTools)
           /\ permits' >= permits
           /\ permitQueue' # <<>> => permitQueue # <<>> /\ permits' = permits
  <1>1. PICK pq \in Seq(Tool) : pq = permitQueue
    BY DEF TypeOK
  <1>2. /\ IsFiniteSet(Holders(S)) /\ Cardinality(Holders(S)) \in Nat
        /\ Holders(S) = HoldingTools \cap Holders(S)
    BY ToolsFinite, FS_Subset, FS_CardinalityType DEF Holders, HoldingTools
  <1>3. PICK f \in Nat : f = Cardinality(Holders(S))
    BY <1>2
  <1>4. PICK n \in Nat : n = Len(pq)
    OBVIOUS
  <1>5. PICK k \in 0..n : k = IF f < n THEN f ELSE n
    BY <1>3, <1>4
  <1>6. /\ call' = [q \in Request |->
                      IF q \in S THEN o ELSE IF \E i \in 1..k : pq[i] = q THEN "granted" ELSE call[q]]
        /\ permitQueue' = SubSeq(pq, k + 1, n)
        /\ permits' = permits + f - k
    BY <1>1, <1>3, <1>4, <1>5 DEF Settle
  <1>7. /\ DOMAIN pq = 1..n
        /\ \A i \in 1..n : pq[i] \in Tool /\ pq[i] \in Request /\ call[pq[i]] = "waiting" /\ pq[i] \notin S
        /\ \A i, j \in 1..n : pq[i] = pq[j] => i = j
    BY <1>1, <1>4 DEF QueueOK, Request
  <1>8. /\ permitQueue' \in Seq(Tool) /\ Len(permitQueue') = n - k
        /\ DOMAIN permitQueue' = 1..(n - k)
        /\ \A i \in 1..(n - k) : permitQueue'[i] = pq[i + k]
    <2> DEFINE rest == SubSeq(pq, k + 1, n)
    <2>1. k + 1 \in Int /\ n \in Int /\ \A i \in (k + 1)..n : pq[i] \in Tool
      BY <1>7
    <2>2. /\ rest \in Seq(Tool)
          /\ Len(rest) = IF k + 1 <= n THEN n - (k + 1) + 1 ELSE 0
          /\ \A i \in 1..(n - (k + 1) + 1) : rest[i] = pq[k + 1 + i - 1]
      BY <2>1, SubSeqProperties
    <2> HIDE DEF rest
    <2>3. Len(rest) = n - k
      BY <2>2
    <2>4. DOMAIN rest = 1..(n - k)
      BY <2>2, <2>3
    <2>5. ASSUME NEW i \in 1..(n - k)
          PROVE  rest[i] = pq[i + k]
      <3>1. i \in 1..(n - (k + 1) + 1) /\ k + 1 + i - 1 = i + k
        OBVIOUS
      <3> QED
        BY <2>2, <3>1
    <2>6. permitQueue' = rest
      BY <1>6 DEF rest
    <2> QED
      BY <2>2, <2>3, <2>4, <2>5, <2>6
  <1>9. QueueOK'
    <2>1. ASSUME NEW i \in 1..(n - k)
          PROVE  i + k \in 1..n /\ call'[permitQueue'[i]] = "waiting"
      <3>1. i + k \in 1..n /\ \A j \in 1..k : j \in 1..n /\ j # i + k
        OBVIOUS
      <3>2. \A j \in 1..k : pq[j] # pq[i + k]
        BY <1>7, <3>1
      <3> QED
        BY <1>6, <1>7, <1>8, <3>1, <3>2
    <2>2. ASSUME NEW i \in 1..(n - k), NEW j \in 1..(n - k), permitQueue'[i] = permitQueue'[j]
          PROVE  i = j
      <3>1. i + k = j + k
        BY <1>7, <1>8, <2>1, <2>2
      <3> QED
        BY <3>1
    <2>3. \A q \in Request : call'[q] = "waiting" => q \in Tool
      BY <1>6 DEF QueueOK, Settled
    <2> QED
      BY <1>8, <2>1, <2>2, <2>3 DEF QueueOK
  <1> DEFINE W == {pq[i] : i \in 1..k}
  <1>10. IsFiniteSet(W) /\ Cardinality(W) = k
    BY <1>4, <1>7, FirstOfQueue
  <1>11. W \subseteq Tool /\ W \cap S = {} /\ W \cap HoldingTools = {}
    BY <1>7 DEF HoldingTools, Holding
  <1>12. \A q \in Request : (\E i \in 1..k : pq[i] = q) <=> q \in W
    OBVIOUS
  <1> HIDE DEF W
  <1>13. HoldingTools' = (HoldingTools \ Holders(S)) \cup W
    <2>1. Tool \subseteq Request
      BY DEF Request
    <2>2. call' = [q \in Request |-> IF q \in S THEN o ELSE IF q \in W THEN "granted" ELSE call[q]]
      BY <1>6, <1>12
    <2> QED
      BY <1>11, <2>1, <2>2 DEF HoldingTools, Holders, Holding, Settled
  <1>14. Cardinality(HoldingTools') = Cardinality(HoldingTools) - f + k
    <2> DEFINE A == HoldingTools \ Holders(S)
    <2>1. IsFiniteSet(HoldingTools) /\ Cardinality(HoldingTools) \in Int
      BY HoldingFinite
    <2>2. IsFiniteSet(A) /\ Cardinality(A) = Cardinality(HoldingTools) - f
      BY <1>2, <1>3, <2>1, CardinalityWithout
    <2>3. A \cap W = {}
      BY <1>11
    <2>4. HoldingTools' = A \cup W
      BY <1>13
    <2> HIDE DEF A
    <2>5. Cardinality(A \cup W) = Cardinality(A) + k
      BY <1>10, <2>2, <2>3, CardinalityWith
    <2> QED
      BY <2>1, <2>2, <2>4, <2>5
  <1>15. permits \in Int
    BY DEF TypeOK
  <1>16. call' \in [Request -> CallStates]
    BY <1>6 DEF TypeOK, CallStates, Settled
  <1>17. \A q \in Request \ S : call'[q] = call[q] \/ (call[q] = "waiting" /\ call'[q] = "granted")
    BY <1>6, <1>7
  <1>18. permitQueue' # <<>> => permitQueue # <<>> /\ permits' = permits
    <2> SUFFICES ASSUME permitQueue' # <<>> PROVE permitQueue # <<>> /\ permits' = permits
      OBVIOUS
    <2>1. Len(permitQueue') # 0
      BY <1>8
    <2>2. k = f /\ n # 0
      BY <1>5, <1>8, <2>1
    <2> QED
      BY <1>1, <1>4, <1>6, <1>15, <2>2
  <1>19. \A q \in S : call'[q] = o
    BY <1>6
  <1>20. /\ permits' \in Int /\ permits' >= permits
         /\ permits' + Cardinality(HoldingTools') = permits + Cardinality(HoldingTools)
    <2>1. Cardinality(HoldingTools) \in Int /\ k <= f
      BY <1>5, HoldingFinite
    <2> QED
      BY <1>6, <1>14, <1>15, <2>1
  <1> QED
    BY <1>8, <1>9, <1>16, <1>17, <1>18, <1>19, <1>20

-----------------------------------------------------------------------------
(* The client's side of a step *)

ClientGood ==
    /\ call \in [Request -> CallStates] /\ permits \in Int /\ permitQueue \in Seq(Tool)
    /\ ~closed => permits \in 0..Permits
    /\ PermitsConserved /\ QueueOK

\* No call is unmade or unsent.
CallsAdvance ==
    /\ \A q \in Request : call'[q] = "new" => call[q] = "new"
    /\ \A q \in Request : call'[q] \in Unsent => call[q] \in Unsent

LEMMA ConservedIs ==
    PermitsConserved <=> (~closed => /\ permits + Cardinality(HoldingTools) = Permits
                                     /\ permitQueue # <<>> => permits = 0)
  BY DEF PermitsConserved, HoldingTools

LEMMA SettleGood ==
    ASSUME TypeOK, QueueOK, PermitsConserved, NEW S \in SUBSET Request, NEW o \in Settled,
           \A q \in S : call[q] # "waiting", Settle(S, o), closed' = closed
    PROVE  /\ ClientGood' /\ CallsAdvance
           /\ \A q \in Request \ S : call'[q] = call[q] \/ call[q] = "waiting"
           /\ \A q \in S : call'[q] = o
  <1>1. /\ call' \in [Request -> CallStates] /\ permits' \in Int /\ permitQueue' \in Seq(Tool)
        /\ \A q \in S : call'[q] = o
        /\ \A q \in Request \ S : call'[q] = call[q] \/ (call[q] = "waiting" /\ call'[q] = "granted")
        /\ QueueOK'
        /\ permits' + Cardinality(HoldingTools') = permits + Cardinality(HoldingTools)
        /\ permits' >= permits
        /\ permitQueue' # <<>> => permitQueue # <<>> /\ permits' = permits
    BY SettleCounts
  <1>2. CallsAdvance
    BY <1>1 DEF CallsAdvance, Unsent, Settled
  <1>3. Cardinality(HoldingTools') \in Nat /\ Cardinality(HoldingTools) \in Nat
    <2>1. IsFiniteSet(HoldingTools')
      BY ToolsFinite, FS_Subset DEF HoldingTools
    <2> QED
      BY <2>1, HoldingFinite, FS_CardinalityType
  <1>4. CASE closed
    BY <1>1, <1>2, <1>4 DEF ClientGood, PermitsConserved
  <1>5. CASE ~closed
    <2>1. permits \in 0..Permits /\ Permits \in Int
      BY <1>5, BridgeAssumption DEF TypeOK
    <2>2. permits + Cardinality(HoldingTools) = Permits /\ (permitQueue # <<>> => permits = 0)
      BY <1>5, ConservedIs
    <2>3. permits' + Cardinality(HoldingTools') = Permits /\ (permitQueue' # <<>> => permits' = 0)
      BY <1>1, <2>2
    <2>4. permits' \in 0..Permits
      BY <1>1, <1>3, <2>1, <2>3
    <2>5. PermitsConserved'
      BY <2>3 DEF PermitsConserved, HoldingTools
    <2> QED
      BY <1>1, <1>2, <2>4, <2>5 DEF ClientGood
  <1> QED
    BY <1>4, <1>5

\* A call that moves on without giving up a permit, or having one.
LEMMA MoveGood ==
    ASSUME TypeOK, QueueOK, PermitsConserved, NEW q \in Request, NEW x \in CallStates \ {"new", "waiting"},
           call' = [call EXCEPT ![q] = x], UNCHANGED <<permits, permitQueue, closed>>,
           call[q] # "waiting", q \in Tool => call[q] \in Holding /\ x \in Holding,
           x \in Unsent => call[q] \in Unsent
    PROVE  ClientGood' /\ CallsAdvance
  <1>1. call' \in [Request -> CallStates]
    BY DEF TypeOK
  <1>2. HoldingTools' = HoldingTools
    BY DEF HoldingTools, TypeOK, Request
  <1>3. PermitsConserved'
    BY <1>2 DEF PermitsConserved, HoldingTools
  <1>4. QueueOK'
    BY DEF QueueOK, TypeOK
  <1>5. CallsAdvance
    BY DEF CallsAdvance, TypeOK
  <1> QED
    BY <1>1, <1>3, <1>4, <1>5 DEF ClientGood, TypeOK

LEMMA PendingNotWaiting == \A q \in Pending : q \in Request /\ call[q] # "waiting"
  BY DEF Pending

LEMMA RecycleGood ==
    ASSUME TypeOK, QueueOK, PermitsConserved, NEW S \in SUBSET Request,
           \A q \in S : call[q] # "waiting", Recycle(S)
    PROVE  /\ ClientGood' /\ CallsAdvance
           /\ \A q \in Pending \cup S : call'[q] = "error"
  BY SettleGood, PendingNotWaiting DEF Recycle, Settled

LEMMA SendGood ==
    ASSUME TypeOK, QueueOK, PermitsConserved, NEW q \in Request, Send(q),
           call[q] \in {"new", "granted"}, q \in Tool => call[q] = "granted"
    PROVE  ClientGood' /\ CallsAdvance
  <1>1. CASE call' = [call EXCEPT ![q] = "pending"] /\ UNCHANGED <<closed, permits, permitQueue>>
    BY <1>1, MoveGood DEF CallStates, Holding, Unsent
  <1>2. CASE Settle({q}, "error") /\ UNCHANGED life
    BY <1>2, SettleGood DEF life, Settled
  <1>3. CASE Recycle({q})
    BY <1>3, RecycleGood
  <1> QED
    BY <1>1, <1>2, <1>3 DEF Send

LEMMA RespondGood ==
    ASSUME TypeOK, QueueOK, PermitsConserved, NEW q \in Request, NEW o \in Settled,
           Respond(q, o), closed' = closed
    PROVE  ClientGood' /\ CallsAdvance
  <1>1. CASE call[q] = "pending" /\ Settle({q}, o)
    BY <1>1, SettleGood
  <1>2. CASE UNCHANGED client
    BY <1>2 DEF client, ClientGood, CallsAdvance, TypeOK, QueueOK, PermitsConserved
  <1> QED
    BY <1>1, <1>2 DEF Respond

LEMMA CallToolGood ==
    ASSUME TypeOK, QueueOK, PermitsConserved, NEW t \in Tool, CallTool(t)
    PROVE  ClientGood' /\ CallsAdvance
  <1> USE DEF CallStates
  <1>1. /\ call[t] = "new" /\ closed' = closed /\ t \in Request
        /\ call \in [Request -> CallStates] /\ permits \in Int /\ permitQueue \in Seq(Tool)
    BY DEF CallTool, life, TypeOK, Request
  <1>2. CASE Settle({t}, "error")
    BY <1>1, <1>2, SettleGood DEF Settled
  <1>3. CASE permits > 0 /\ call' = [call EXCEPT ![t] = "granted"] /\ permits' = permits - 1 /\ UNCHANGED permitQueue
    <2>1. HoldingTools' = HoldingTools \cup {t} /\ t \notin HoldingTools
      BY <1>1, <1>3 DEF HoldingTools, Holding, Request
    <2>2. Cardinality(HoldingTools') = Cardinality(HoldingTools) + 1 /\ Cardinality(HoldingTools) \in Nat
      BY <2>1, HoldingFinite, FS_AddElement
    <2>3. PermitsConserved'
      BY <1>1, <1>3, <2>2 DEF PermitsConserved, HoldingTools
    <2>4. QueueOK'
      BY <1>1, <1>3 DEF QueueOK
    <2>5. CallsAdvance
      BY <1>1, <1>3 DEF CallsAdvance, Unsent
    <2>6. ~closed => permits' \in 0..Permits
      BY <1>1, <1>3, BridgeAssumption DEF TypeOK
    <2> QED
      BY <1>1, <1>3, <2>3, <2>4, <2>5, <2>6 DEF ClientGood
  <1>4. CASE ~(permits > 0) /\ call' = [call EXCEPT ![t] = "waiting"] /\ permitQueue' = Append(permitQueue, t) /\ UNCHANGED permits
    <2>1. HoldingTools' = HoldingTools
      BY <1>1, <1>4 DEF HoldingTools, Holding, Request
    <2>2. PermitsConserved'
      <3>1. ~closed => permits = 0
        BY <1>1, <1>4 DEF TypeOK
      <3>2. ~closed => permits + Cardinality(HoldingTools') = Permits
        BY <2>1, ConservedIs
      <3> QED
        BY <1>1, <1>4, <3>1, <3>2 DEF PermitsConserved, HoldingTools
    <2>3. \A i \in DOMAIN permitQueue : permitQueue[i] # t
      BY <1>1 DEF QueueOK
    <2>4. QueueOK'
      BY <1>1, <1>4, <2>3 DEF QueueOK, Request
    <2>5. CallsAdvance
      BY <1>1, <1>4 DEF CallsAdvance, Unsent
    <2> QED
      BY <1>1, <1>4, <2>2, <2>4, <2>5 DEF ClientGood, TypeOK
  <1> QED
    BY <1>2, <1>3, <1>4 DEF CallTool

LEMMA CloseGood ==
    ASSUME TypeOK, Close
    PROVE  ClientGood' /\ CallsAdvance
  <1>1. Cardinality(Pending \cap Tool) \in Nat
    BY ToolsFinite, FS_Subset, FS_CardinalityType
  <1>2. permits' \in Int
    BY <1>1, BridgeAssumption DEF Close, TypeOK
  <1>3. call' \in [Request -> CallStates]
    BY DEF Close, TypeOK, CallStates
  <1>4. CallsAdvance
    BY DEF Close, CallsAdvance, Unsent, Pending
  <1> QED
    BY <1>2, <1>3, <1>4 DEF Close, ClientGood, PermitsConserved, QueueOK

\* Calls that wait for the termination of the run are not waiting for a permit.
LEMMA AfterGood ==
    ASSUME TypeOK, QueueOK, PermitsConserved, AfterAbort \/ AfterSecondAbort
    PROVE  ClientGood' /\ CallsAdvance
  <1> DEFINE back == {t \in Tool : call[t] = "terminating"}
  <1>1. back \in SUBSET Request /\ (\A q \in back : call[q] # "waiting")
    BY DEF Request
  <1>2. {} \in SUBSET Request /\ (\A q \in {} : call[q] # "waiting") /\ "error" \in Settled
    BY DEF Settled
  <1> HIDE DEF back
  <1>3. CASE AfterAbort
    <2>1. PICK S \in {back, {}} : Recycle(S) \/ (Settle(S, "error") /\ UNCHANGED life)
      BY <1>3 DEF AfterAbort, back
    <2> QED
      BY <1>1, <1>2, <2>1, RecycleGood, SettleGood DEF life
  <1>4. CASE AfterSecondAbort
    BY <1>1, <1>2, <1>4, SettleGood DEF AfterSecondAbort, back, life
  <1> QED
    BY <1>3, <1>4

LEMMA ToolTimeoutGood ==
    ASSUME TypeOK, QueueOK, PermitsConserved, NEW t \in Tool, ToolTimeout(t)
    PROVE  ClientGood' /\ CallsAdvance
  <1>1. t \in Request /\ call[t] = "pending" /\ closed' = closed
    BY DEF ToolTimeout, life, Request
  <1>2. CASE Settle({t}, "error")
    BY <1>1, <1>2, SettleGood DEF Settled
  <1>3. CASE call' = [call EXCEPT ![t] = "terminating"] /\ UNCHANGED <<permits, permitQueue>>
    BY <1>1, <1>3, MoveGood DEF CallStates, Holding, Unsent
  <1> QED
    BY <1>2, <1>3 DEF ToolTimeout

LEMMA StepGood ==
    ASSUME IInv, [Next]_vars
    PROVE  ClientGood' /\ CallsAdvance
  <1>1. TypeOK /\ QueueOK /\ PermitsConserved
    BY DEF IInv
  <1>2. CASE UNCHANGED <<client, closed>>
    BY <1>1, <1>2 DEF client, ClientGood, CallsAdvance, TypeOK, QueueOK, PermitsConserved
  <1>3. CASE CallStart \/ CallEnd \/ \E q \in Request : CallNote(q) \/ CallAbort(q)
    <2>1. PICK q \in Request : q \notin Tool /\ call[q] = "new" /\ Send(q)
      BY <1>3, BridgeAssumption DEF CallStart, CallEnd, CallNote, CallAbort, Request, Abort, Start, End
    <2> QED
      BY <1>1, <2>1, SendGood
  <1>4. ASSUME NEW t \in Tool, Granted(t)
        PROVE  ClientGood' /\ CallsAdvance
    <2>1. t \in Request /\ call[t] = "granted"
      BY <1>4 DEF Granted, Request
    <2>2. CASE Send(t)
      BY <1>1, <2>1, <2>2, SendGood
    <2>3. CASE Settle({t}, "error") /\ UNCHANGED life
      BY <1>1, <2>1, <2>3, SettleGood DEF life, Settled
    <2> QED
      BY <1>4, <2>2, <2>3 DEF Granted
  <1>5. ASSUME NEW q \in Request, Timeout(q)
        PROVE  ClientGood' /\ CallsAdvance
    <2>1. CASE Recycle({q})
      BY <1>1, <1>5, <2>1, RecycleGood DEF Timeout
    <2>2. CASE Settle({q}, "error") /\ UNCHANGED life
      BY <1>1, <1>5, <2>2, SettleGood DEF Timeout, life, Settled
    <2> QED
      BY <1>5, <2>1, <2>2 DEF Timeout
  <1>6. ASSUME NEW q \in Request,
               \E o \in Settled : Respond(q, o) /\ closed' = closed
        PROVE  ClientGood' /\ CallsAdvance
    BY <1>1, <1>6, RespondGood
  <1>7. ASSUME NEW t \in Tool, ReadTool(t) \/ StartTool(t) \/ FinishTool(t)
        PROVE  ClientGood' /\ CallsAdvance
    <2>1. t \in Request /\ (UNCHANGED client \/ \E o \in Settled : Respond(t, o)) /\ closed' = closed
      BY <1>7 DEF ReadTool, StartTool, FinishTool, life, Settled, Request
    <2> QED
      BY <1>2, <1>6, <2>1
  <1>8. ASSUME NEW q \in Request, ReadEvent(q) \/ FailRun(q)
        PROVE  ClientGood' /\ CallsAdvance
    <2>1. (\E o \in Settled : Respond(q, o)) /\ closed' = closed
      BY <1>8 DEF ReadEvent, FailRun, life, Settled
    <2> QED
      BY <1>6, <2>1
  <1>9. CASE Complete
    <2>1. End \in Request /\ (\E o \in Settled : Respond(End, o)) /\ closed' = closed
      BY <1>9 DEF Complete, life, Settled, Request
    <2> QED
      BY <1>6, <2>1
  <1>10. CASE FailLate \/ BridgeLost
    <2>1. CASE FailLate
      <3>1. Recycle({End}) /\ bridge.main = "late" /\ End \in Request
        BY <2>1 DEF FailLate, Request
      <3>2. call[End] # "waiting"
        BY <1>1, <3>1, BridgeAssumption DEF QueueOK
      <3> QED
        BY <1>1, <3>1, <3>2, RecycleGood
    <2>2. CASE BridgeLost
      BY <1>1, <2>2, RecycleGood DEF BridgeLost
    <2> QED
      BY <1>10, <2>1, <2>2
  <1>11. CASE (\E q \in Request : ReadLast(q)) \/ DrainExpires \/ UNCHANGED vars
    BY <1>2, <1>11 DEF ReadLast, DrainExpires, vars, life
  <1> QED
    BY <1>1, <1>3, <1>4, <1>5, <1>7, <1>8, <1>9, <1>10, <1>11,
       CallToolGood, CloseGood, AfterGood, ToolTimeoutGood DEF Next, ClientStep, BridgeStep

-----------------------------------------------------------------------------
(* Types of the rest of the state *)

RestOK ==
    /\ proc \in 0..MaxSpawns /\ spawns \in 0..MaxSpawns /\ closed \in BOOLEAN
    /\ term \in {"none", "first", "second", "over"} /\ termChild \in 0..MaxSpawns
    /\ endFails \in BOOLEAN
    /\ bridge \in Process
    /\ row \in {"none", "open", "completed", "failed"} /\ owner \in 0..MaxSpawns
    /\ losses \in 0..MaxLosses /\ faults \in 0..MaxFaults

LEMMA TypeIs ==
    TypeOK <=> /\ call \in [Request -> CallStates] /\ permits \in Int /\ permitQueue \in Seq(Tool)
               /\ ~closed => permits \in 0..Permits
               /\ RestOK
  BY DEF TypeOK, RestOK

LEMMA NewBridgeType == NewBridge \in Process
  BY DEF NewBridge, Process

LEMMA SendType ==
    ASSUME RestOK, NEW q \in Request, Send(q)
    PROVE  /\ proc' \in 0..MaxSpawns /\ spawns' \in 0..MaxSpawns /\ closed' \in BOOLEAN
           /\ bridge' \in Process
  <1>1. CASE ~closed /\ (proc # 0 \/ spawns < MaxSpawns)
             /\ proc' = (IF proc = 0 THEN spawns + 1 ELSE proc)
             /\ spawns' = (IF proc = 0 THEN spawns + 1 ELSE spawns)
             /\ bridge' = [bridge EXCEPT !.stdin = Append(@, q)] /\ closed' = closed
    <2>1. proc' \in 0..MaxSpawns /\ spawns' \in 0..MaxSpawns /\ closed' \in BOOLEAN
      BY <1>1, BridgeAssumption DEF RestOK
    <2>2. PICK line \in Seq(Request) : line = Append(bridge.stdin, q)
      <3>1. bridge.stdin \in Seq(Request)
        BY DEF RestOK, Process
      <3> QED
        BY <3>1, AppendProperties
    <2>3. bridge' = [bridge EXCEPT !.stdin = line]
      BY <1>1, <2>2
    <2>4. bridge' \in Process
      BY <2>3 DEF RestOK, Process
    <2> QED
      BY <2>1, <2>4
  <1>2. CASE UNCHANGED <<life, bridge>>
    BY <1>2 DEF life, RestOK
  <1>3. CASE proc' = 0 /\ bridge' = NewBridge /\ UNCHANGED <<spawns, closed>>
    BY <1>3, NewBridgeType, BridgeAssumption DEF RestOK
  <1> QED
    BY <1>1, <1>2, <1>3 DEF Send, Recycle

LEMMA RecycleType ==
    ASSUME RestOK, NEW S, Recycle(S)
    PROVE  /\ proc' \in 0..MaxSpawns /\ spawns' \in 0..MaxSpawns /\ closed' \in BOOLEAN
           /\ bridge' \in Process
  BY NewBridgeType, BridgeAssumption DEF RestOK, Recycle

LEMMA CancelledType ==
    ASSUME RestOK
    PROVE  Cancelled \in [Tool -> {"none", "queued", "running", "done", "cancelled"}] /\ Evicted \in Process
  <1>1. Cancelled \in [Tool -> {"none", "queued", "running", "done", "cancelled"}]
    BY DEF RestOK, Process, Cancelled
  <1> HIDE DEF Cancelled
  <1>2. Evicted \in Process
    BY <1>1 DEF RestOK, Process, Evicted
  <1> QED
    BY <1>1, <1>2

LEMMA ReadType ==
    ASSUME RestOK, NEW q, Reads(q)
    PROVE  Rest \in Seq(Request) /\ q \in Request
  BY DEF RestOK, Process, Reads, Rest

LEMMA TeardownType ==
    ASSUME RestOK, NEW f \in {0, 1}, NEW g \in {0, 1}, Teardown(f, g)
    PROVE  row' \in {"none", "open", "completed", "failed"} /\ faults' \in 0..MaxFaults
  BY BridgeAssumption DEF RestOK, Teardown, Repaired

LEMMA RestStep ==
    ASSUME RestOK, [Next]_vars
    PROVE  RestOK'
  <1>1. CASE UNCHANGED <<life, ending, bridge, store, losses>>
    BY <1>1 DEF life, ending, store, RestOK
  <1>2. CASE CallStart \/ CallEnd \/ \E q \in Request : CallNote(q) \/ CallAbort(q)
    <2>1. PICK q \in Request : Send(q)
      BY <1>2 DEF CallStart, CallEnd, CallNote, CallAbort, Request
    <2>2. UNCHANGED <<term, termChild, row, owner, faults, losses>> /\ endFails' \in BOOLEAN
      BY <1>2 DEF CallStart, CallEnd, CallNote, CallAbort, ending, store, Terminated, RestOK
    <2> QED
      BY <2>1, <2>2, SendType DEF RestOK
  <1>3. ASSUME NEW t \in Tool, Granted(t)
        PROVE  RestOK'
    <2>1. t \in Request /\ UNCHANGED <<ending, store, losses>>
      BY <1>3 DEF Granted, Request
    <2>2. CASE Send(t)
      BY <2>1, <2>2, SendType DEF RestOK, ending, store
    <2>3. CASE UNCHANGED <<life, bridge>>
      BY <2>1, <2>3, <1>1
    <2> QED
      BY <1>3, <2>2, <2>3 DEF Granted
  <1>4. ASSUME NEW t \in Tool, CallTool(t) \/ ToolTimeout(t)
        PROVE  RestOK'
    BY <1>4 DEF CallTool, ToolTimeout, RestOK, life, ending, store
  <1>5. ASSUME NEW q \in Request, Timeout(q)
        PROVE  RestOK'
    <2>1. CASE Recycle({q})
      BY <1>5, <2>1, RecycleType DEF Timeout, RestOK, ending, store
    <2>2. CASE UNCHANGED <<life, bridge>>
      BY <1>5, <2>2, <1>1 DEF Timeout
    <2> QED
      BY <1>5, <2>1, <2>2 DEF Timeout
  <1>6. CASE AfterAbort \/ AfterSecondAbort
    <2>1. /\ term' \in {"second", "over"} /\ UNCHANGED <<termChild, endFails, store, losses>>
          /\ (\E S : Recycle(S)) \/ UNCHANGED <<life, bridge>>
      BY <1>6 DEF AfterAbort, AfterSecondAbort
    <2>2. CASE \E S : Recycle(S)
      BY <2>1, <2>2, RecycleType DEF RestOK, store
    <2>3. CASE UNCHANGED <<life, bridge>>
      BY <2>1, <2>3 DEF RestOK, store, life
    <2> QED
      BY <2>1, <2>2, <2>3
  <1>7. CASE Close
    BY <1>7, NewBridgeType, BridgeAssumption DEF Close, RestOK, ending, store
  <1>8. ASSUME NEW t \in Tool, ReadTool(t) \/ StartTool(t) \/ FinishTool(t)
        PROVE  RestOK'
    <2>1. UNCHANGED <<life, ending, store, losses>>
      BY <1>8 DEF ReadTool, StartTool, FinishTool
    <2>2. CASE ReadTool(t)
      <3>1. Rest \in Seq(Request)
        BY <2>2, ReadType DEF ReadTool
      <3>2. PICK fut \in [Tool -> {"none", "queued", "running", "done", "cancelled"}] :
               bridge' = [bridge EXCEPT !.stdin = Rest, !.fut = fut]
        <4> DEFINE put == [bridge.fut EXCEPT ![t] = "queued"]
        <4>1. bridge.fut \in [Tool -> {"none", "queued", "running", "done", "cancelled"}] /\ put \in [Tool -> {"none", "queued", "running", "done", "cancelled"}]
          BY DEF RestOK, Process
        <4>2. CASE bridge' = [bridge EXCEPT !.stdin = Rest, !.fut[t] = "queued"]
          <5>1. bridge' = [bridge EXCEPT !.stdin = Rest, !.fut = put]
            BY <4>2
          <5> QED
            BY <4>1, <5>1
        <4>3. CASE bridge' = [bridge EXCEPT !.stdin = Rest]
          <5>1. bridge' = [bridge EXCEPT !.stdin = Rest, !.fut = bridge.fut]
            BY <4>3 DEF RestOK, Process
          <5> QED
            BY <4>1, <5>1
        <4> QED
          BY <2>2, <4>2, <4>3 DEF ReadTool
      <3>3. bridge' \in Process
        <4> HIDE DEF Rest
        <4> QED
          BY <3>1, <3>2 DEF RestOK, Process
      <3> QED
        BY <2>1, <3>3 DEF RestOK, life, ending, store
    <2>3. CASE StartTool(t) \/ FinishTool(t)
      <3>1. bridge' = [bridge EXCEPT !.fut[t] = "running"] \/ bridge' = [bridge EXCEPT !.fut[t] = "done"]
        BY <2>3 DEF StartTool, FinishTool
      <3>2. bridge' \in Process
        BY <3>1 DEF RestOK, Process
      <3> QED
        BY <2>1, <3>2 DEF RestOK, life, ending, store
    <2> QED
      BY <1>8, <2>2, <2>3
  <1>9. ASSUME NEW q \in Request, ReadEvent(q)
        PROVE  RestOK'
    <2>1. Rest \in Seq(Request)
      BY <1>9, ReadType DEF ReadEvent
    <2>2. PICK fault \in BOOLEAN, ins \in BOOLEAN :
             /\ fault => faults < MaxFaults
             /\ faults' = IF fault THEN faults + 1 ELSE faults
             /\ row' = IF ins THEN "open" ELSE row
             /\ owner' = IF ins THEN proc ELSE owner
             /\ bridge' = [bridge EXCEPT !.stdin = Rest, !.session = @ \/ q = Start,
                                         !.recorder = OpenRecorder(ins)]
      BY <1>9 DEF ReadEvent
    <2>3. PICK rest \in Seq(Request), known \in BOOLEAN, rec \in {"none", "on", "off"} :
             bridge' = [bridge EXCEPT !.stdin = rest, !.session = known, !.recorder = rec]
      <3>1. OpenRecorder(ins) \in {"none", "on", "off"} /\ (bridge.session \/ q = Start) \in BOOLEAN
        BY DEF RestOK, Process, OpenRecorder
      <3>2. bridge' = [bridge EXCEPT !.stdin = Rest, !.session = bridge.session \/ q = Start,
                                     !.recorder = OpenRecorder(ins)]
        BY <2>2
      <3> QED
        BY <2>1, <3>1, <3>2
    <2>5. bridge' \in Process
      <3>1. bridge' = [stdin |-> rest, main |-> bridge.main, session |-> known, recorder |-> rec,
                       fut |-> bridge.fut]
        BY <2>3 DEF RestOK, Process
      <3>2. bridge.main \in {"idle", "late"} \cup Abort \cup {End}
            /\ bridge.fut \in [Tool -> {"none", "queued", "running", "done", "cancelled"}]
        BY DEF RestOK, Process
      <3> QED
        BY <3>1, <3>2, Zenon DEF Process
    <2>4. faults' \in 0..MaxFaults /\ row' \in {"none", "open", "completed", "failed"} /\ owner' \in 0..MaxSpawns
      BY <2>2, BridgeAssumption DEF RestOK
    <2> QED
      BY <1>9, <2>4, <2>5 DEF ReadEvent, RestOK, life, ending
  <1>10. ASSUME NEW q \in Request, ReadLast(q)
        PROVE  RestOK'
    <2>1. Rest \in Seq(Request) /\ q \in Abort \cup {End}
      BY <1>10, ReadType DEF ReadLast
    <2>2. bridge' \in Process
      BY <1>10, <2>1 DEF ReadLast, RestOK, Process
    <2> QED
      BY <1>10, <2>2 DEF ReadLast, RestOK, life, ending, store
  <1>11. CASE Complete
    <2>1. bridge' \in Process
      BY <1>11, CancelledType DEF Complete
    <2>2. row' \in {"none", "open", "completed", "failed"} /\ faults' \in 0..MaxFaults
      BY <1>11, BridgeAssumption DEF Complete, RestOK
    <2> QED
      BY <1>11, <2>1, <2>2 DEF Complete, RestOK, life, ending
  <1>12. ASSUME NEW q \in Request, FailRun(q)
        PROVE  RestOK'
    <2>1. bridge' \in Process
      BY <1>12, CancelledType DEF FailRun
    <2>2. row' \in {"none", "open", "completed", "failed"} /\ faults' \in 0..MaxFaults
      BY <1>12, TeardownType DEF FailRun
    <2> QED
      BY <1>12, <2>1, <2>2 DEF FailRun, RestOK, life, ending
  <1>13. CASE DrainExpires
    <2>1. bridge' \in Process
      BY <1>13, CancelledType DEF DrainExpires, RestOK, Process
    <2> QED
      BY <1>13, <2>1 DEF DrainExpires, RestOK, life, ending, store
  <1>14. CASE FailLate
    <2>1. Recycle({End}) /\ UNCHANGED <<ending, owner, losses>>
      BY <1>14 DEF FailLate
    <2>2. row' \in {"none", "open", "completed", "failed"} /\ faults' \in 0..MaxFaults
      BY <1>14, TeardownType DEF FailLate
    <2> QED
      BY <2>1, <2>2, RecycleType DEF RestOK, ending
  <1>15. CASE BridgeLost
    <2>1. losses' \in 0..MaxLosses
      BY <1>15, BridgeAssumption DEF BridgeLost, RestOK
    <2> QED
      BY <1>15, <2>1, RecycleType DEF BridgeLost, RestOK, ending, store
  <1>16. CASE UNCHANGED vars
    BY <1>1, <1>16 DEF vars
  <1> QED
    BY <1>2, <1>3, <1>4, <1>5, <1>6, <1>7, <1>8, <1>9, <1>10, <1>11, <1>12, <1>13, <1>14, <1>15, <1>16
       DEF Next, ClientStep, BridgeStep

-----------------------------------------------------------------------------
(* The bridge's side of a step *)

BridgeGood == BridgeOK /\ TermOK /\ StartOK

\* Only calls of S, of those the bridge may be busy with, get an answer.
KeepsBusy(S) == \A t \in Tool \ S : call[t] \in Busy => call'[t] = call[t]

LEMMA SettleBusy ==
    ASSUME IInv, NEW S \in SUBSET Request, NEW o \in Settled,
           \A q \in S : call[q] # "waiting", Settle(S, o), closed' = closed
    PROVE  KeepsBusy(S) /\ CallsAdvance
  <1>1. CallsAdvance /\ \A q \in Request \ S : call'[q] = call[q] \/ call[q] = "waiting"
    BY SettleGood DEF IInv
  <1> QED
    BY <1>1 DEF KeepsBusy, Busy, Request

LEMMA RespondBusy ==
    ASSUME IInv, NEW q \in Request, NEW o \in Settled, Respond(q, o), closed' = closed
    PROVE  KeepsBusy({q}) /\ CallsAdvance
  <1>1. CASE call[q] = "pending" /\ Settle({q}, o)
    BY <1>1, SettleBusy
  <1>2. CASE UNCHANGED client
    BY <1>2 DEF client, KeepsBusy, CallsAdvance
  <1> QED
    BY <1>1, <1>2 DEF Respond

\* A bridge that has nothing, because it is new or not there.
LEMMA NewGood ==
    ASSUME bridge' = NewBridge, proc' = 0
    PROVE  BridgeGood' /\ InLine' = {} /\ Unfinished' = {}
  <1>1. InLine' = {} /\ Unfinished' = {}
    BY DEF InLine, Unfinished, NewBridge
  <1>2. BridgeOK'
    BY <1>1 DEF BridgeOK, NewBridge, AcceptedCallHasSession
  <1>3. TermOK'
    BY <1>1 DEF TermOK, Nothing
  <1>4. StartOK'
    BY <1>1 DEF StartOK, NewBridge
  <1> QED
    BY <1>1, <1>2, <1>3, <1>4 DEF BridgeGood

\* What is left of the lines once the first is read.
LEMMA RestLines ==
    ASSUME IInv, NEW q, Reads(q)
    PROVE  /\ q \in InLine /\ q \in Request /\ proc # 0
           /\ Rest \in Seq(Request) /\ DOMAIN Rest = 1..(Len(bridge.stdin) - 1)
           /\ Len(bridge.stdin) \in Nat \ {0} /\ DOMAIN bridge.stdin = 1..Len(bridge.stdin)
           /\ \A i \in DOMAIN Rest : /\ Rest[i] = bridge.stdin[i + 1] /\ Rest[i] \in InLine
                                     /\ Rest[i] # q /\ Rest[i] # Start
  <1>1. PICK st \in Seq(Request) : st = bridge.stdin /\ st # <<>> /\ q = Head(st)
    BY DEF IInv, TypeOK, Process, Reads
  <1>2. PICK n \in Nat : n = Len(st) /\ n # 0
    BY <1>1
  <1>3. Tail(st) \in Seq(Request) /\ DOMAIN Tail(st) = 1..(n - 1) /\ q = st[1] /\ DOMAIN st = 1..n
    BY <1>1, <1>2
  <1>4. \A i \in 1..(n - 1) : Tail(st)[i] = st[i + 1]
    BY <1>1, <1>2
  <1>5. /\ \A i, j \in 1..n : st[i] = st[j] => i = j
        /\ \A i \in 1..n : st[i] = Start => i = 1
        /\ \A i \in 1..n : st[i] \in InLine /\ st[i] \in Request
    BY <1>1, <1>2, <1>3 DEF IInv, BridgeOK, StartOK, InLine
  <1>6. ASSUME NEW i \in 1..(n - 1)
        PROVE  st[i + 1] \in InLine /\ st[i + 1] # q /\ st[i + 1] # Start
    <2>1. i + 1 \in 1..n /\ 1 \in 1..n /\ i + 1 # 1
      OBVIOUS
    <2> QED
      BY <1>3, <1>5, <2>1
  <1>7. proc # 0
    BY <1>1 DEF IInv, BridgeOK, NewBridge
  <1>8. q \in InLine /\ q \in Request
    <2>1. 1 \in 1..n
      BY <1>2
    <2> QED
      BY <1>3, <1>5, <2>1
  <1> QED
    BY <1>1, <1>2, <1>3, <1>4, <1>6, <1>7, <1>8 DEF Rest

\* A bridge that reads a line, or works on what it has read, or does nothing.
LEMMA WorkGood ==
    ASSUME IInv, CallsAdvance, UNCHANGED <<proc, closed>>, proc # 0 \/ bridge' = bridge,
           bridge'.stdin = bridge.stdin \/ (bridge'.stdin = Rest /\ \E q : Reads(q)),
           bridge'.main # "idle" => bridge.main # "idle" \/ (bridge'.stdin = Rest /\ \E q : Reads(q)),
           \A t \in Tool : bridge'.fut[t] # "none" => bridge.fut[t] # "none" \/ t \in InLine,
           \A t \in Tool : bridge'.fut[t] \in {"queued", "running"} => t \in InLine \cup Unfinished,
           \A t \in Tool : t \in InLine' => bridge'.fut[t] = "none",
           \A t \in Tool : t \in InLine' \cup Unfinished' => call'[t] \in Busy,
           \A t \in Tool : bridge'.fut[t] = "queued" => bridge'.session,
           \/ UNCHANGED <<term, termChild>>
           \/ term' = "first" /\ termChild' = proc
           \/ Nothing
    PROVE  BridgeGood' /\ InLine' \subseteq InLine
  <1> DEFINE L ==
        /\ InLine' \subseteq InLine
        /\ \A i, j \in DOMAIN bridge'.stdin : bridge'.stdin[i] = bridge'.stdin[j] => i = j
        /\ \A i \in DOMAIN bridge'.stdin : bridge'.stdin[i] = Start => i = 1
        /\ bridge'.main # "idle" => Start \notin InLine'
  <1>1. PICK new : new = bridge'.stdin
    OBVIOUS
  <1>2. ASSUME new = bridge.stdin, ~(bridge'.stdin = Rest /\ \E q : Reads(q))
        PROVE  L
    <2>1. InLine' = InLine
      BY <1>1, <1>2 DEF InLine
    <2>2. \A i, j \in DOMAIN bridge'.stdin : bridge'.stdin[i] = bridge'.stdin[j] => i = j
      BY <1>1, <1>2 DEF IInv, BridgeOK
    <2>3. \A i \in DOMAIN bridge'.stdin : bridge'.stdin[i] = Start => i = 1
      BY <1>1, <1>2 DEF IInv, StartOK
    <2>4. bridge'.main # "idle" => Start \notin InLine'
      BY <1>2, <2>1 DEF IInv, StartOK
    <2> QED
      BY <2>1, <2>2, <2>3, <2>4
  <1>3. ASSUME new = Rest, \E q : Reads(q)
        PROVE  L
    <2>1. PICK q : Reads(q)
      BY <1>3
    <2>2. PICK n \in Nat \ {0} : n = Len(bridge.stdin)
      BY <2>1, RestLines
    <2>3. DOMAIN new = 1..(n - 1) /\ DOMAIN bridge.stdin = 1..n
      BY <1>3, <2>1, <2>2, RestLines
    <2>4. \A i \in 1..(n - 1) : new[i] = bridge.stdin[i + 1] /\ new[i] \in InLine /\ new[i] # Start
      BY <1>3, <2>1, <2>3, RestLines
    <2>5. \A i, j \in 1..n : bridge.stdin[i] = bridge.stdin[j] => i = j
      BY <2>3 DEF IInv, BridgeOK
    <2>6. ASSUME NEW i \in 1..(n - 1), NEW j \in 1..(n - 1), new[i] = new[j]
          PROVE  i = j
      <3>1. i + 1 \in 1..n /\ j + 1 \in 1..n
        OBVIOUS
      <3>2. i + 1 = j + 1
        BY <2>4, <2>5, <2>6, <3>1
      <3> QED
        BY <3>2
    <2>7. InLine' = {new[i] : i \in 1..(n - 1)}
      BY <1>1, <2>3 DEF InLine
    <2>8. InLine' \subseteq InLine /\ Start \notin InLine'
      BY <2>4, <2>7
    <2> QED
      BY <1>1, <2>3, <2>4, <2>6, <2>8
  <1>4. L
    BY <1>1, <1>2, <1>3
  <1> HIDE DEF L
  <1>5. BridgeOK'
    <2>1. proc' = 0 => bridge' = NewBridge
      BY DEF IInv, BridgeOK
    <2>2. closed' => proc' = 0
      BY DEF IInv, BridgeOK
    <2>3. \A q \in InLine' : call'[q] \notin Unsent
      <3>1. \A q \in InLine : q \in Request /\ call[q] \notin Unsent
        BY DEF IInv, BridgeOK, InLine, TypeOK, Process
      <3> QED
        BY <1>4, <3>1 DEF CallsAdvance, L
    <2>4. \A t \in Tool : bridge'.fut[t] # "none" => call'[t] \notin Unsent
      BY DEF IInv, BridgeOK, CallsAdvance, Request
    <2> QED
      BY <1>4, <2>1, <2>2, <2>3, <2>4 DEF BridgeOK, AcceptedCallHasSession, L
  <1>6. TermOK'
    <2>1. Nothing => Nothing'
      BY <1>4 DEF Nothing, Unfinished, L
    <2> QED
      BY <2>1 DEF IInv, TermOK, Terminated
  <1>7. StartOK'
    BY <1>4, Zenon DEF StartOK, L
  <1> QED
    BY <1>4, <1>5, <1>6, <1>7 DEF BridgeGood, L

\* A line is written to the bridge, which is spawned when there is none.
LEMMA WriteGood ==
    ASSUME IInv, NEW q \in Request, call[q] \in {"new", "granted"},
           q \in Tool => ~Terminated, q = Start => call[Start] = "new",
           ~closed, closed' = closed, proc' # 0, proc # 0 => proc' = proc,
           UNCHANGED <<term, termChild>>,
           bridge' = [bridge EXCEPT !.stdin = Append(@, q)],
           call' = [call EXCEPT ![q] = "pending"]
    PROVE  BridgeGood' /\ InLine' = InLine \cup {q}
  <1>1. PICK st \in Seq(Request) : st = bridge.stdin
    BY DEF IInv, TypeOK, Process
  <1>2. PICK new \in Seq(Request) : new = Append(st, q)
    BY <1>1, AppendProperties
  <1>3. PICK n \in Nat : n = Len(st)
    BY <1>1
  <1>4. DOMAIN new = 1..(n + 1) /\ DOMAIN st = 1..n /\ new[n + 1] = q /\ \A i \in 1..n : new[i] = st[i]
    BY <1>1, <1>2, <1>3
  <1>5. bridge' = [bridge EXCEPT !.stdin = new] /\ bridge \in Process /\ call \in [Request -> CallStates]
    BY <1>1, <1>2 DEF IInv, TypeOK
  <1>6. bridge'.stdin = new /\ bridge'.fut = bridge.fut /\ bridge'.session = bridge.session /\ bridge'.main = bridge.main
    BY <1>5 DEF Process
  <1>7. InLine = {st[i] : i \in 1..n} /\ InLine' = {new[i] : i \in 1..(n + 1)}
    <2>1. InLine = {st[i] : i \in 1..n}
      BY <1>1, <1>4, Zenon DEF InLine
    <2>2. InLine' = {new[i] : i \in 1..(n + 1)}
      <3>1. InLine' = {bridge'.stdin[i] : i \in DOMAIN bridge'.stdin}
        BY DEF InLine
      <3> QED
        BY <1>4, <1>6, <3>1
    <2> QED
      BY <2>1, <2>2
  <1>8. InLine' = InLine \cup {q}
    <2>1. InLine' \subseteq InLine \cup {q}
      <3>1. \A i \in 1..(n + 1) : i = n + 1 \/ i \in 1..n
        OBVIOUS
      <3> QED
        BY <1>4, <1>7, <3>1
    <2>2. InLine \cup {q} \subseteq InLine'
      <3>1. n + 1 \in 1..(n + 1) /\ \A i \in 1..n : i \in 1..(n + 1)
        OBVIOUS
      <3> QED
        BY <1>4, <1>7, <3>1
    <2> QED
      BY <2>1, <2>2
  <1>9. Unfinished' = Unfinished
    BY <1>6 DEF Unfinished
  <1>10. \A u \in InLine : u \in Request /\ call[u] \notin Unsent
    BY <1>1, <1>4, <1>7 DEF IInv, BridgeOK
  <1>11. q \notin InLine
    BY <1>10 DEF Unsent
  <1>12. \A i, j \in 1..(n + 1) : new[i] = new[j] => i = j
    <2>1. \A i, j \in 1..n : st[i] = st[j] => i = j
      BY <1>1, <1>4 DEF IInv, BridgeOK
    <2>2. \A i \in 1..n : st[i] # q
      BY <1>7, <1>11
    <2>3. \A i \in 1..(n + 1) : i = n + 1 \/ i \in 1..n
      OBVIOUS
    <2> QED
      BY <1>4, <2>1, <2>2, <2>3
  <1>13. BridgeOK'
    <2>1. \A u \in InLine' : call'[u] \notin Unsent
      BY <1>5, <1>8, <1>10 DEF Unsent
    <2>2. \A t \in Tool : t \in InLine' \cup Unfinished' => call'[t] \in Busy
      BY <1>5, <1>8, <1>9 DEF IInv, BridgeOK, Busy, Request
    <2>3. \A t \in Tool : t \in InLine' => bridge'.fut[t] = "none"
      BY <1>6, <1>8 DEF IInv, BridgeOK, Unsent
    <2>4. \A t \in Tool : bridge'.fut[t] # "none" => call'[t] \notin Unsent
      BY <1>5, <1>6 DEF IInv, BridgeOK, Unsent, Request
    <2>5. AcceptedCallHasSession'
      BY <1>6 DEF IInv, BridgeOK, AcceptedCallHasSession
    <2> QED
      BY <1>4, <1>6, <1>12, <2>1, <2>2, <2>3, <2>4, <2>5 DEF BridgeOK
  <1>14. TermOK'
    <2> SUFFICES ASSUME Terminated, term # "first" \/ termChild # proc' PROVE Nothing'
      BY DEF TermOK, Terminated
    <2>1. Nothing
      <3>1. CASE proc = 0
        BY <3>1 DEF IInv, BridgeOK, NewBridge, Nothing, InLine, Unfinished
      <3>2. CASE proc # 0
        BY <3>2 DEF IInv, TermOK
      <3> QED
        BY <3>1, <3>2
    <2> QED
      BY <1>8, <1>9, <2>1 DEF Nothing
  <1>15. StartOK'
    <2>1. CASE q = Start
      <3>1. bridge = NewBridge
        BY <2>1 DEF IInv, FirstOK, BridgeOK
      <3>2. n = 0 /\ bridge.main = "idle"
        BY <1>1, <1>3, <3>1 DEF NewBridge
      <3> QED
        BY <1>4, <1>6, <3>2 DEF StartOK
    <2>2. CASE q # Start
      <3>1. \A i \in 1..n : st[i] = Start => i = 1
        BY <1>1, <1>4 DEF IInv, StartOK
      <3>2. \A i \in 1..(n + 1) : i = n + 1 \/ i \in 1..n
        OBVIOUS
      <3>3. bridge.main # "idle" => Start \notin InLine'
        BY <1>8, <2>2 DEF IInv, StartOK
      <3> QED
        BY <1>4, <1>6, <2>2, <3>1, <3>2, <3>3 DEF StartOK
    <2> QED
      BY <2>1, <2>2
  <1> QED
    BY <1>8, <1>13, <1>14, <1>15 DEF BridgeGood

\* The bridge does nothing, and no call it is busy with gets an answer.
LEMMA IdleGood ==
    ASSUME IInv, CallsAdvance, UNCHANGED <<bridge, proc, closed>>,
           \A t \in Tool : t \in InLine \cup Unfinished => call'[t] \in Busy,
           \/ UNCHANGED <<term, termChild>>
           \/ term' = "first" /\ termChild' = proc
           \/ Nothing
    PROVE  BridgeGood'
  <1>1. InLine' = InLine /\ Unfinished' = Unfinished
    BY DEF InLine, Unfinished
  <1>2. \A t \in Tool : t \in InLine' => bridge'.fut[t] = "none"
    BY <1>1 DEF IInv, BridgeOK
  <1>3. \A t \in Tool : bridge'.fut[t] = "queued" => bridge'.session
    BY DEF IInv, BridgeOK, AcceptedCallHasSession
  <1>4. \A t \in Tool : bridge'.fut[t] \in {"queued", "running"} => t \in InLine \cup Unfinished
    BY DEF Unfinished
  <1> QED
    BY <1>1, <1>2, <1>3, <1>4, WorkGood

\* The row is left alone, and the bridge hears nothing new of the run but a
\* first line.
LEMMA RowQuiet ==
    ASSUME IInv, row' = row, bridge'.recorder = "on" => bridge.recorder = "on",
           bridge'.session => bridge.session, Unfinished' \subseteq Unfinished,
           Start \in InLine' => Start \in InLine \/ row = "none"
    PROVE  RowOK'
  BY DEF IInv, RowOK

LEMMA RowIdle ==
    ASSUME IInv, UNCHANGED <<row, bridge>>
    PROVE  RowOK'
  BY DEF IInv, RowOK, InLine, Unfinished

LEMMA NewStep ==
    ASSUME IInv, bridge' = NewBridge, proc' = 0, row' = row
    PROVE  BridgeGood' /\ RowOK'
  <1>1. BridgeGood' /\ InLine' = {} /\ Unfinished' = {}
    BY NewGood
  <1>2. bridge'.recorder = "none" /\ ~bridge'.session
    BY DEF NewBridge
  <1> QED
    BY <1>1, <1>2 DEF RowOK

LEMMA SendStep ==
    ASSUME IInv, CallsAdvance, NEW q \in Request, Send(q), call[q] \in {"new", "granted"},
           q \in Tool => ~Terminated, q = Start => call[Start] = "new",
           UNCHANGED <<term, termChild, row>>
    PROVE  BridgeGood' /\ RowOK'
  <1>1. CASE /\ ~closed /\ proc' = (IF proc = 0 THEN spawns + 1 ELSE proc)
             /\ bridge' = [bridge EXCEPT !.stdin = Append(@, q)]
             /\ call' = [call EXCEPT ![q] = "pending"] /\ closed' = closed
    <2>1. proc' # 0 /\ (proc # 0 => proc' = proc)
      BY <1>1, BridgeAssumption DEF IInv, TypeOK
    <2>2. BridgeGood' /\ InLine' = InLine \cup {q}
      BY <1>1, <2>1, WriteGood
    <2>3. /\ bridge'.recorder = bridge.recorder /\ bridge'.session = bridge.session
          /\ bridge'.fut = bridge.fut
      BY <1>1 DEF IInv, TypeOK, Process
    <2>4. Unfinished' = Unfinished
      BY <2>3 DEF Unfinished
    <2>5. Start \in InLine' => Start \in InLine \/ row = "none"
      BY <2>2 DEF IInv, FirstOK
    <2> QED
      BY <2>2, <2>3, <2>4, <2>5, RowQuiet
  <1>2. CASE Settle({q}, "error") /\ proc = 0 /\ UNCHANGED <<life, bridge>>
    <2>1. \A t \in Tool : t \notin InLine \cup Unfinished
      BY <1>2 DEF IInv, BridgeOK, NewBridge, InLine, Unfinished
    <2>2. UNCHANGED <<bridge, proc, closed, row>>
      BY <1>2 DEF life
    <2> QED
      BY <2>1, <2>2, IdleGood, RowIdle
  <1>3. CASE proc' = 0 /\ bridge' = NewBridge
    BY <1>3, NewStep
  <1> QED
    BY <1>1, <1>2, <1>3 DEF Send, Recycle

\* The client's steps that answer calls and leave the bridge alone.
LEMMA SettleStep ==
    ASSUME IInv, NEW S \in SUBSET Request, Settle(S, "error"), UNCHANGED <<life, bridge, row>>,
           \A q \in S : call[q] # "waiting", S \cap (InLine \cup Unfinished) \cap Tool = {},
           UNCHANGED <<term, termChild>> \/ Nothing
    PROVE  BridgeGood' /\ RowOK'
  <1>1. KeepsBusy(S) /\ CallsAdvance
    BY SettleBusy DEF life, Settled
  <1>2. \A t \in Tool : t \in InLine \cup Unfinished => call'[t] \in Busy
    BY <1>1 DEF IInv, BridgeOK, KeepsBusy
  <1> QED
    BY <1>1, <1>2, IdleGood, RowIdle DEF life

LEMMA CallToolStep ==
    ASSUME IInv, CallsAdvance, NEW t \in Tool, CallTool(t)
    PROVE  BridgeGood' /\ RowOK'
  <1>1. t \in Request /\ t \notin InLine \cup Unfinished /\ call[t] = "new"
    BY DEF CallTool, IInv, BridgeOK, Busy, Request
  <1>2. UNCHANGED <<life, bridge, row, term, termChild>>
    BY DEF CallTool, ending, store
  <1>3. CASE Settle({t}, "error")
    BY <1>1, <1>2, <1>3, SettleStep
  <1>4. CASE \E x : call' = [call EXCEPT ![t] = x]
    <2>1. \A u \in Tool : u \in InLine \cup Unfinished => call'[u] \in Busy
      BY <1>1, <1>4 DEF IInv, BridgeOK, TypeOK, Request
    <2> QED
      BY <1>2, <2>1, IdleGood, RowIdle DEF life
  <1> QED
    BY <1>3, <1>4 DEF CallTool

LEMMA GrantedStep ==
    ASSUME IInv, CallsAdvance, NEW t \in Tool, Granted(t)
    PROVE  BridgeGood' /\ RowOK'
  <1>1. /\ t \in Request /\ t # Start /\ call[t] = "granted"
        /\ UNCHANGED <<term, termChild, row>>
    BY BridgeAssumption DEF Granted, ending, store, Request
  <1>2. CASE Terminated
    <2>1. t \notin InLine \cup Unfinished
      BY <1>1 DEF IInv, BridgeOK, Busy
    <2> QED
      BY <1>1, <1>2, <2>1, SettleStep DEF Granted
  <1>3. CASE ~Terminated
    BY <1>1, <1>3, SendStep DEF Granted
  <1> QED
    BY <1>2, <1>3

LEMMA ToolTimeoutStep ==
    ASSUME IInv, CallsAdvance, NEW t \in Tool, ToolTimeout(t)
    PROVE  BridgeGood' /\ RowOK'
  <1>1. t \in Request /\ call[t] = "pending" /\ UNCHANGED <<life, bridge, row>>
    BY DEF ToolTimeout, store, Request
  <1>2. CASE term = "over"
    <2>1. Nothing
      BY <1>2 DEF IInv, TermOK, Terminated
    <2>2. t \notin InLine \cup Unfinished
      BY <2>1 DEF Nothing
    <2>3. Settle({t}, "error")
      BY <1>2 DEF ToolTimeout
    <2> QED
      BY <1>1, <2>1, <2>2, <2>3, SettleStep
  <1>3. CASE term # "over"
    <2>1. call' = [call EXCEPT ![t] = "terminating"]
      BY <1>3 DEF ToolTimeout
    <2>2. \A u \in Tool : u \in InLine \cup Unfinished => call'[u] \in Busy
      BY <1>1, <2>1 DEF IInv, BridgeOK, TypeOK, Request, Busy
    <2>3. UNCHANGED <<term, termChild>> \/ (term' = "first" /\ termChild' = proc)
      BY DEF ToolTimeout
    <2> QED
      BY <1>1, <2>2, <2>3, IdleGood, RowIdle DEF life
  <1> QED
    BY <1>2, <1>3

LEMMA TimeoutStep ==
    ASSUME IInv, NEW q \in Request, Timeout(q)
    PROVE  BridgeGood' /\ RowOK'
  <1>1. q \notin Tool /\ call[q] = "pending" /\ UNCHANGED <<row, term, termChild>>
    BY DEF Timeout, ending, store
  <1>2. CASE q = End
    BY <1>1, <1>2, NewStep DEF Timeout, Recycle
  <1>3. CASE q # End
    BY <1>1, <1>3, SettleStep DEF Timeout
  <1> QED
    BY <1>2, <1>3

LEMMA AfterStep ==
    ASSUME IInv, AfterAbort \/ AfterSecondAbort
    PROVE  BridgeGood' /\ RowOK'
  <1> DEFINE back == {t \in Tool : call[t] = "terminating"}
  <1>1. back \in SUBSET Request /\ (\A q \in back : call[q] # "waiting")
    BY DEF Request
  <1>2. {} \in SUBSET Request /\ (\A q \in {} : call[q] # "waiting")
    OBVIOUS
  <1>3. row' = row
    BY DEF AfterAbort, AfterSecondAbort, store
  <1> HIDE DEF back
  <1>4. PICK S \in {back, {}} :
           Recycle(S) \/ (Settle(S, "error") /\ UNCHANGED <<life, bridge>> /\ Nothing)
    BY DEF AfterAbort, AfterSecondAbort, back, IInv, TermOK, Terminated
  <1>5. CASE Recycle(S)
    BY <1>3, <1>5, NewStep DEF Recycle
  <1>6. CASE Settle(S, "error") /\ UNCHANGED <<life, bridge>> /\ Nothing
    <2>1. S \cap (InLine \cup Unfinished) \cap Tool = {}
      BY <1>6 DEF Nothing, Unfinished
    <2> QED
      BY <1>1, <1>2, <1>3, <1>6, <2>1, SettleStep
  <1> QED
    BY <1>4, <1>5, <1>6

LEMMA ReadToolStep ==
    ASSUME IInv, CallsAdvance, NEW t \in Tool, ReadTool(t)
    PROVE  BridgeGood' /\ RowOK'
  <1>1. /\ UNCHANGED <<proc, closed, term, termChild, row>> /\ Reads(t) /\ t \in Request
        /\ bridge \in Process /\ t # Start
    BY BridgeAssumption DEF ReadTool, life, ending, store, Request, IInv, TypeOK
  <1>2. /\ t \in InLine /\ proc # 0
        /\ \A i \in DOMAIN Rest : Rest[i] \in InLine /\ Rest[i] # t /\ Rest[i] # Start
    BY <1>1, RestLines
  <1>3. bridge'.stdin = Rest /\ UNCHANGED <<bridge.main, bridge.session, bridge.recorder>>
    BY <1>1 DEF ReadTool, Process
  <1>4. InLine' \subseteq InLine /\ t \notin InLine'
    BY <1>2, <1>3 DEF InLine
  <1>5. KeepsBusy({t})
    <2>1. UNCHANGED call \/ Respond(t, "error")
      BY DEF ReadTool, client
    <2> QED
      BY <1>1, <2>1, RespondBusy DEF KeepsBusy, Settled
  <1>6. CASE bridge.session
    <2>1. bridge'.fut = [bridge.fut EXCEPT ![t] = "queued"] /\ UNCHANGED call
      BY <1>1, <1>6 DEF ReadTool, Process, client
    <2>2. bridge.fut \in [Tool -> {"none", "queued", "running", "done", "cancelled"}]
      BY <1>1 DEF Process
    <2>3. Unfinished' = Unfinished \cup {t}
      BY <2>1, <2>2 DEF Unfinished
    <2>4. \A u \in Tool : u \in InLine' => bridge'.fut[u] = "none"
      BY <1>4, <2>1, <2>2 DEF IInv, BridgeOK
    <2>5. \A u \in Tool : u \in InLine' \cup Unfinished' => call'[u] \in Busy
      BY <1>2, <1>4, <2>1, <2>3 DEF IInv, BridgeOK
    <2>6. \A u \in Tool : /\ bridge'.fut[u] # "none" => bridge.fut[u] # "none" \/ u \in InLine
                          /\ bridge'.fut[u] \in {"queued", "running"} => u \in InLine \cup Unfinished
      BY <1>2, <2>1, <2>2 DEF Unfinished
    <2>7. BridgeGood'
      BY <1>1, <1>2, <1>3, <1>6, <2>4, <2>5, <2>6, WorkGood
    <2>8. RowOK'
      BY <1>1, <1>3, <1>6 DEF IInv, RowOK
    <2> QED
      BY <2>7, <2>8
  <1>7. CASE ~bridge.session
    <2>1. bridge'.fut = bridge.fut
      BY <1>1, <1>7 DEF ReadTool, Process
    <2>2. Unfinished' = Unfinished /\ t \notin Unfinished
      BY <1>2, <2>1 DEF Unfinished, IInv, BridgeOK
    <2>3. \A u \in Tool : u \in InLine' => bridge'.fut[u] = "none"
      BY <1>4, <2>1 DEF IInv, BridgeOK
    <2>4. \A u \in Tool : u \in InLine' \cup Unfinished' => call'[u] \in Busy
      BY <1>4, <1>5, <2>2 DEF IInv, BridgeOK, KeepsBusy
    <2>5. \A u \in Tool : bridge'.fut[u] = "queued" => bridge'.session
      BY <1>3, <2>1 DEF IInv, BridgeOK, AcceptedCallHasSession
    <2>6. \A u \in Tool : bridge'.fut[u] \in {"queued", "running"} => u \in InLine \cup Unfinished
      BY <2>1 DEF Unfinished
    <2>7. BridgeGood'
      BY <1>1, <1>2, <1>3, <2>1, <2>3, <2>4, <2>5, <2>6, WorkGood
    <2>8. RowOK'
      BY <1>1, <1>3, <1>4, <2>2, RowQuiet
    <2> QED
      BY <2>7, <2>8
  <1> QED
    BY <1>6, <1>7

LEMMA RunToolStep ==
    ASSUME IInv, CallsAdvance, NEW t \in Tool, StartTool(t) \/ FinishTool(t)
    PROVE  BridgeGood' /\ RowOK'
  <1>1. /\ UNCHANGED <<proc, closed, term, termChild, row>> /\ t \in Request /\ bridge \in Process
        /\ bridge.fut[t] \in {"queued", "running"} /\ proc # 0
    BY DEF StartTool, FinishTool, life, ending, store, Request, IInv, TypeOK, BridgeOK, NewBridge
  <1>2. PICK x \in {"running", "done"} :
           /\ bridge' = [bridge EXCEPT !.fut[t] = x]
           /\ x = "running" => UNCHANGED call
           /\ UNCHANGED call \/ \E o \in Settled : Respond(t, o)
    BY DEF StartTool, FinishTool, client, Settled
  <1>3. /\ UNCHANGED <<bridge.stdin, bridge.main, bridge.session, bridge.recorder>>
        /\ bridge'.fut = [bridge.fut EXCEPT ![t] = x]
        /\ bridge.fut \in [Tool -> {"none", "queued", "running", "done", "cancelled"}]
    BY <1>1, <1>2 DEF Process
  <1>4. InLine' = InLine /\ t \notin InLine
    BY <1>1, <1>3 DEF InLine, IInv, BridgeOK
  <1>5. Unfinished' = IF x = "running" THEN Unfinished ELSE Unfinished \ {t}
    BY <1>1, <1>3 DEF Unfinished
  <1>6. KeepsBusy({t})
    BY <1>1, <1>2, RespondBusy DEF KeepsBusy
  <1>7. \A u \in Tool : u \in InLine' => bridge'.fut[u] = "none"
    BY <1>3, <1>4 DEF IInv, BridgeOK
  <1>8. \A u \in Tool : u \in InLine' \cup Unfinished' => call'[u] \in Busy
    <2>1. CASE x = "running"
      BY <1>2, <1>4, <1>5, <2>1 DEF IInv, BridgeOK
    <2>2. CASE x # "running"
      BY <1>4, <1>5, <1>6, <2>2 DEF IInv, BridgeOK, KeepsBusy
    <2> QED
      BY <2>1, <2>2
  <1>9. \A u \in Tool : /\ bridge'.fut[u] # "none" => bridge.fut[u] # "none"
                        /\ bridge'.fut[u] \in {"queued", "running"} => u \in Unfinished
                        /\ bridge'.fut[u] = "queued" => bridge'.session
    BY <1>1, <1>3 DEF Unfinished, IInv, BridgeOK, AcceptedCallHasSession
  <1>10. BridgeGood'
    BY <1>1, <1>3, <1>7, <1>8, <1>9, WorkGood
  <1>11. RowOK'
    BY <1>1, <1>3, <1>4, <1>5, RowQuiet
  <1> QED
    BY <1>10, <1>11

LEMMA ReadEventStep ==
    ASSUME IInv, CallsAdvance, NEW q \in Request, ReadEvent(q)
    PROVE  BridgeGood' /\ RowOK'
  <1>1. /\ UNCHANGED <<proc, closed, term, termChild>> /\ Reads(q) /\ q \notin Tool
        /\ bridge \in Process
    BY BridgeAssumption DEF ReadEvent, life, ending, IInv, TypeOK
  <1>2. /\ q \in InLine /\ proc # 0
        /\ \A i \in DOMAIN Rest : Rest[i] \in InLine /\ Rest[i] # q /\ Rest[i] # Start
    BY <1>1, RestLines
  <1>3. PICK ins \in BOOLEAN :
           /\ ins => bridge.recorder = "none" /\ row = "none"
           /\ row' = IF ins THEN "open" ELSE row
           /\ bridge' = [bridge EXCEPT !.stdin = Rest, !.session = @ \/ q = Start,
                                       !.recorder = OpenRecorder(ins)]
    BY DEF ReadEvent
  <1>4. /\ bridge'.stdin = Rest /\ bridge'.main = bridge.main /\ bridge'.fut = bridge.fut
        /\ bridge'.recorder = OpenRecorder(ins)
    BY <1>1, <1>3 DEF Process
  <1>5. bridge'.session <=> bridge.session \/ q = Start
    BY <1>1, <1>3, Zenon DEF Process
  <1>6. InLine' \subseteq InLine /\ Start \notin InLine'
    BY <1>2, <1>4 DEF InLine
  <1>7. Unfinished' = Unfinished
    BY <1>4 DEF Unfinished
  <1>8. KeepsBusy({q})
    BY <1>1, RespondBusy DEF ReadEvent, Settled
  <1>9. \A t \in Tool : t \in InLine' \cup Unfinished' => call'[t] \in Busy
    BY <1>1, <1>6, <1>7, <1>8 DEF IInv, BridgeOK, KeepsBusy
  <1>10. \A t \in Tool : /\ t \in InLine' => bridge'.fut[t] = "none"
                         /\ bridge'.fut[t] = "queued" => bridge'.session
                         /\ bridge'.fut[t] \in {"queued", "running"} => t \in Unfinished
    BY <1>4, <1>5, <1>6 DEF IInv, BridgeOK, AcceptedCallHasSession, Unfinished
  <1>11. BridgeGood'
    BY <1>1, <1>2, <1>4, <1>9, <1>10, WorkGood
  <1>12. RowOK'
    <2>1. bridge'.recorder = "on" => row' = "open"
      BY <1>3, <1>4 DEF OpenRecorder, IInv, RowOK
    <2>2. row' = "completed" => row = "completed"
      BY <1>3
    <2> QED
      BY <1>2, <1>5, <1>6, <1>7, <2>1, <2>2 DEF IInv, RowOK
  <1> QED
    BY <1>11, <1>12

LEMMA ReadLastStep ==
    ASSUME IInv, CallsAdvance, NEW q \in Request, ReadLast(q)
    PROVE  BridgeGood' /\ RowOK'
  <1>1. /\ UNCHANGED <<proc, closed, term, termChild, row, call>> /\ Reads(q)
        /\ bridge \in Process
    BY DEF ReadLast, life, ending, store, client, IInv, TypeOK
  <1>2. proc # 0 /\ \A i \in DOMAIN Rest : Rest[i] \in InLine
    BY <1>1, RestLines
  <1>3. /\ bridge'.stdin = Rest /\ bridge'.fut = bridge.fut
        /\ bridge'.recorder = bridge.recorder /\ bridge'.session = bridge.session
    BY <1>1 DEF ReadLast, Process
  <1>4. InLine' \subseteq InLine
    BY <1>2, <1>3 DEF InLine
  <1>5. Unfinished' = Unfinished
    BY <1>3 DEF Unfinished
  <1>6. \A t \in Tool : /\ t \in InLine' \cup Unfinished' => call'[t] \in Busy
                        /\ t \in InLine' => bridge'.fut[t] = "none"
                        /\ bridge'.fut[t] = "queued" => bridge'.session
                        /\ bridge'.fut[t] \in {"queued", "running"} => t \in Unfinished
    BY <1>1, <1>3, <1>4, <1>5 DEF IInv, BridgeOK, AcceptedCallHasSession, Unfinished
  <1>7. BridgeGood'
    BY <1>1, <1>2, <1>3, <1>6, WorkGood
  <1>8. RowOK'
    BY <1>1, <1>3, <1>4, <1>5, RowQuiet
  <1> QED
    BY <1>7, <1>8

\* Calls that are cancelled were not running, and nothing else is.
LEMMA CancelledIs ==
    ASSUME IInv, bridge'.fut = Cancelled
    PROVE  /\ Unfinished' \subseteq Unfinished
           /\ \A t \in Tool : /\ bridge'.fut[t] # "none" <=> bridge.fut[t] # "none"
                              /\ bridge'.fut[t] # "queued"
                              /\ bridge'.fut[t] = "running" => t \in Unfinished
  BY DEF Cancelled, Unfinished, IInv, TypeOK, Process

LEMMA DrainExpiresStep ==
    ASSUME IInv, CallsAdvance, DrainExpires
    PROVE  BridgeGood' /\ RowOK'
  <1>1. UNCHANGED <<proc, closed, term, termChild, row, call>> /\ bridge \in Process /\ bridge.main = End
    BY DEF DrainExpires, life, ending, store, client, IInv, TypeOK
  <1>2. proc # 0
    BY <1>1 DEF IInv, BridgeOK, NewBridge, End
  <1>3. /\ bridge'.stdin = bridge.stdin /\ bridge'.fut = Cancelled
        /\ bridge'.recorder = bridge.recorder /\ bridge'.session = bridge.session
    BY <1>1 DEF DrainExpires, Process
  <1>4. InLine' = InLine
    BY <1>3 DEF InLine
  <1>5. /\ Unfinished' \subseteq Unfinished
        /\ \A t \in Tool : /\ bridge'.fut[t] # "none" <=> bridge.fut[t] # "none"
                           /\ bridge'.fut[t] # "queued"
                           /\ bridge'.fut[t] = "running" => t \in Unfinished
    BY <1>3, CancelledIs
  <1>6. \A t \in Tool : /\ t \in InLine' \cup Unfinished' => call'[t] \in Busy
                        /\ t \in InLine' => bridge'.fut[t] = "none"
    BY <1>1, <1>4, <1>5 DEF IInv, BridgeOK
  <1>7. bridge.main # "idle"
    BY <1>1 DEF End
  <1>8. BridgeGood'
    BY <1>1, <1>2, <1>3, <1>5, <1>6, <1>7, WorkGood
  <1>9. RowOK'
    BY <1>1, <1>3, <1>4, <1>5, RowQuiet
  <1> QED
    BY <1>8, <1>9

\* The bridge forgets the run.
LEMMA EvictStep ==
    ASSUME IInv, CallsAdvance, NEW q \in Request \ Tool, NEW o \in Settled, Respond(q, o),
           UNCHANGED <<life, term, termChild>>, bridge.main # "idle", bridge' = Evicted,
           row' = "completed" => row = "completed" \/ Unfinished = {}
    PROVE  BridgeGood' /\ RowOK'
  <1>1. UNCHANGED <<proc, closed>> /\ bridge \in Process
    BY DEF life, IInv, TypeOK
  <1>2. proc # 0
    BY DEF IInv, BridgeOK, NewBridge
  <1>3. /\ bridge'.stdin = bridge.stdin /\ bridge'.fut = Cancelled /\ bridge'.main = "idle"
        /\ bridge'.recorder = "none" /\ bridge'.session = FALSE
    BY <1>1 DEF Evicted, Process
  <1>4. InLine' = InLine
    BY <1>3 DEF InLine
  <1>5. /\ Unfinished' \subseteq Unfinished
        /\ \A t \in Tool : /\ bridge'.fut[t] # "none" <=> bridge.fut[t] # "none"
                           /\ bridge'.fut[t] # "queued"
                           /\ bridge'.fut[t] = "running" => t \in Unfinished
    BY <1>3, CancelledIs
  <1>6. KeepsBusy({q})
    BY <1>1, RespondBusy
  <1>7. \A t \in Tool : /\ t \in InLine' \cup Unfinished' => call'[t] \in Busy
                        /\ t \in InLine' => bridge'.fut[t] = "none"
    BY <1>4, <1>5, <1>6 DEF IInv, BridgeOK, KeepsBusy
  <1>8. BridgeGood'
    BY <1>1, <1>2, <1>3, <1>5, <1>7, WorkGood
  <1>9. RowOK'
    BY <1>3, <1>4, <1>5 DEF IInv, RowOK, StartOK
  <1> QED
    BY <1>8, <1>9

LEMMA CompleteStep ==
    ASSUME IInv, CallsAdvance, Complete
    PROVE  BridgeGood' /\ RowOK'
  <1>1. End \in Request \ Tool /\ "ok" \in Settled
    BY BridgeAssumption DEF Request, Settled
  <1>2. Unfinished = {} /\ bridge.main # "idle"
    BY DEF Complete, Drained, End
  <1>3. Respond(End, "ok") /\ UNCHANGED <<life, term, termChild>> /\ bridge' = Evicted
    BY DEF Complete, ending
  <1> QED
    BY <1>1, <1>2, <1>3, EvictStep

LEMMA TeardownRow ==
    ASSUME NEW f \in {0, 1}, NEW g \in {0, 1}, Teardown(f, g), row' = "completed"
    PROVE  row = "completed"
  BY DEF Teardown, Repaired

LEMMA FailRunStep ==
    ASSUME IInv, CallsAdvance, NEW q \in Request, FailRun(q)
    PROVE  BridgeGood' /\ RowOK'
  <1>1. q \in Request \ Tool /\ bridge.main # "idle"
    BY BridgeAssumption DEF FailRun, Abort, End
  <1>2. /\ (\E o \in Settled : Respond(q, o)) /\ UNCHANGED <<life, term, termChild>>
        /\ bridge' = Evicted
    BY DEF FailRun, Settled, ending
  <1>3. row' = "completed" => row = "completed"
    BY TeardownRow DEF FailRun
  <1> QED
    BY <1>1, <1>2, <1>3, EvictStep

LEMMA FailLateStep ==
    ASSUME IInv, FailLate
    PROVE  BridgeGood' /\ RowOK'
  <1>1. BridgeGood' /\ InLine' = {} /\ Unfinished' = {}
    BY NewGood DEF FailLate, Recycle
  <1>2. bridge'.recorder = "none" /\ ~bridge'.session
    BY DEF FailLate, Recycle, NewBridge
  <1> QED
    BY <1>1, <1>2 DEF RowOK

\* Until agent_start is called nothing else happens but the session's end.
LEMMA BeforeStart ==
    ASSUME IInv, [Next]_vars, call[Start] = "new"
    PROVE  CallStart \/ Close \/ UNCHANGED vars
  <1>1. /\ \A q \in Request : call[q] = "new"
        /\ proc = 0 /\ term = "none" /\ bridge = NewBridge
    BY DEF IInv, FirstOK, BridgeOK
  <1>2. Tool \subseteq Request /\ {Start, End} \subseteq Request
    BY DEF Request
  <1>3. ~ClientStep
    BY <1>1, <1>2 DEF ClientStep, Granted, ToolTimeout, CallAbort, Timeout, AfterAbort, AfterSecondAbort
  <1>4. ~BridgeStep
    BY <1>1 DEF BridgeStep, NewBridge, ReadTool, StartTool, FinishTool, ReadEvent, ReadLast, FailRun,
                Complete, DrainExpires, FailLate, Reads, Abort, End
  <1>5. ~CallEnd /\ (\A t \in Tool : ~CallTool(t)) /\ (\A q \in Request : ~CallNote(q)) /\ ~BridgeLost
    BY <1>1 DEF CallEnd, CallTool, CallNote, BridgeLost
  <1> QED
    BY <1>3, <1>4, <1>5 DEF Next

LEMMA FirstStep ==
    ASSUME IInv, [Next]_vars, CallsAdvance
    PROVE  FirstOK'
  <1> SUFFICES ASSUME call'[Start] = "new"
               PROVE  /\ \A q \in Request : call'[q] = "new"
                      /\ proc' = 0 /\ row' = "none" /\ term' = "none"
    BY DEF FirstOK
  <1>1. /\ Start \in Request /\ call[Start] = "new" /\ call \in [Request -> CallStates]
        /\ \A q \in Request : call[q] = "new"
        /\ proc = 0 /\ row = "none" /\ term = "none"
    BY DEF CallsAdvance, Request, IInv, FirstOK, TypeOK
  <1>2. CASE CallStart
    <2>1. call'[Start] \in {"pending", "error"}
      BY <1>1, <1>2 DEF CallStart, Send, Settle, Recycle
    <2> QED
      BY <2>1
  <1>3. CASE Close
    BY <1>1, <1>3 DEF Close, Pending, ending, store
  <1>4. CASE UNCHANGED vars
    BY <1>1, <1>4 DEF vars, client, life, ending, store
  <1> QED
    BY <1>2, <1>3, <1>4, <1>1, BeforeStart

LEMMA BridgeStepGood ==
    ASSUME IInv, [Next]_vars, CallsAdvance
    PROVE  BridgeGood' /\ RowOK'
  <1>1. CASE UNCHANGED vars
    <2>1. \A t \in Tool : t \in InLine \cup Unfinished => call'[t] \in Busy
      BY <1>1 DEF IInv, BridgeOK, vars, client
    <2> QED
      BY <1>1, <2>1, IdleGood, RowIdle DEF vars, life, ending, store
  <1>2. CASE CallStart \/ CallEnd \/ \E q \in Request : CallNote(q) \/ CallAbort(q)
    <2>1. PICK q \in Request : q \notin Tool /\ call[q] = "new" /\ Send(q)
      BY <1>2, BridgeAssumption DEF CallStart, CallEnd, CallNote, CallAbort, Request, Abort, Start, End
    <2>2. UNCHANGED <<term, termChild, row>>
      BY <1>2 DEF CallStart, CallEnd, CallNote, CallAbort, ending, store
    <2> QED
      BY <2>1, <2>2, SendStep
  <1>3. CASE Close
    BY <1>3, NewStep DEF Close, store
  <1>4. CASE BridgeLost
    BY <1>4, NewStep DEF BridgeLost, Recycle, store
  <1> QED
    BY <1>1, <1>2, <1>3, <1>4, CallToolStep, GrantedStep, ToolTimeoutStep, TimeoutStep, AfterStep,
       ReadToolStep, RunToolStep, ReadEventStep, ReadLastStep, DrainExpiresStep, CompleteStep,
       FailRunStep, FailLateStep DEF Next, ClientStep, BridgeStep

-----------------------------------------------------------------------------
(* The theorems *)

LEMMA InitInv == Init => IInv
  <1> SUFFICES ASSUME Init PROVE IInv
    OBVIOUS
  <1>1. RestOK
    <2>1. bridge \in Process
      BY NewBridgeType DEF Init
    <2>2. 0 \in 0..MaxSpawns /\ 0 \in 0..MaxLosses /\ 0 \in 0..MaxFaults
      BY BridgeAssumption
    <2> QED
      BY <2>1, <2>2 DEF Init, RestOK
  <1>2. call \in [Request -> CallStates] /\ permits \in 0..Permits /\ permitQueue = <<>>
    BY BridgeAssumption DEF Init, CallStates
  <1>3. TypeOK
    BY <1>1, <1>2, TypeIs
  <1>4. HoldingTools = {} /\ Cardinality({}) = 0
    BY FS_EmptySet DEF Init, HoldingTools, Holding, Request
  <1>5. PermitsConserved
    BY <1>4, ConservedIs, BridgeAssumption DEF Init
  <1>6. InLine = {} /\ Unfinished = {}
    BY DEF Init, NewBridge, InLine, Unfinished
  <1>7. QueueOK
    BY <1>2 DEF Init, QueueOK
  <1>8. BridgeOK
    BY <1>6 DEF Init, BridgeOK, NewBridge, AcceptedCallHasSession
  <1>9. TermOK /\ FirstOK /\ RowOK
    BY <1>6 DEF Init, TermOK, FirstOK, RowOK, NewBridge, Terminated
  <1>10. StartOK
    BY <1>6 DEF Init, StartOK, NewBridge
  <1> QED
    BY <1>3, <1>5, <1>7, <1>8, <1>9, <1>10 DEF IInv

LEMMA Inductive ==
    ASSUME IInv, [Next]_vars
    PROVE  IInv'
  <1>1. ClientGood' /\ CallsAdvance
    BY StepGood
  <1>2. RestOK
    BY TypeIs DEF IInv
  <1>3. RestOK'
    BY <1>2, RestStep
  <1>4. TypeOK'
    BY <1>1, <1>3, TypeIs DEF ClientGood, TypeOK, RestOK
  <1>5. FirstOK' /\ BridgeGood' /\ RowOK'
    BY <1>1, FirstStep, BridgeStepGood
  <1> QED
    BY <1>1, <1>4, <1>5 DEF IInv, ClientGood, BridgeGood

LEMMA Invariance == Spec => []IInv
  BY InitInv, Inductive, PTL DEF Spec

\* The variables of the client, the bridge and the store keep their types.
THEOREM TypesKept == Spec => []TypeOK
  <1>1. IInv => TypeOK
    BY DEF IInv
  <1> QED
    BY <1>1, Invariance, PTL

\* Until the session closes, permits and the tool calls that hold one add up
\* to the number of permits, and a call waits only when all are out.
THEOREM PermitsKept == Spec => []PermitsConserved
  <1>1. IInv => PermitsConserved
    BY DEF IInv
  <1> QED
    BY <1>1, Invariance, PTL

\* A bridge never has more tool calls queued and running than its pool has
\* threads, however many bridges were lost and calls timed out.
THEOREM PoolBounded == Spec => []PoolNotOversubscribed
  <1>1. ASSUME IInv
        PROVE  PoolNotOversubscribed
    <2>1. CASE closed
      <3>1. Unfinished = {}
        BY <1>1, <2>1 DEF IInv, BridgeOK, NewBridge, Unfinished
      <3> QED
        BY <3>1, FS_EmptySet, BridgeAssumption DEF PoolNotOversubscribed
    <2>2. CASE ~closed
      <3>1. Unfinished \subseteq HoldingTools
        BY <1>1 DEF IInv, BridgeOK, Unfinished, HoldingTools, Holding, Busy
      <3>2. Cardinality(Unfinished) <= Cardinality(HoldingTools) /\ Cardinality(Unfinished) \in Nat
        BY <3>1, HoldingFinite, FS_Subset, FS_CardinalityType
      <3>3. Cardinality(HoldingTools) <= Permits
        <4>1. permits \in 0..Permits /\ permits + Cardinality(HoldingTools) = Permits
          BY <1>1, <2>2, ConservedIs DEF IInv, TypeOK
        <4> QED
          BY <4>1, HoldingFinite, BridgeAssumption
      <3> QED
        BY <3>2, <3>3, HoldingFinite, BridgeAssumption DEF PoolNotOversubscribed
    <2> QED
      BY <2>1, <2>2
  <1> QED
    BY <1>1, Invariance, PTL

\* Once the row says completed, no call of the run is queued or running.
THEOREM CompletedIsQuiet == Spec => []CompletedRunQuiet
  <1>1. IInv => CompletedRunQuiet
    BY DEF IInv, RowOK, CompletedRunQuiet
  <1> QED
    BY <1>1, Invariance, PTL

\* A queued call's run is known to the bridge it is queued at.
THEOREM QueuedHasSession == Spec => []AcceptedCallHasSession
  <1>1. IInv => AcceptedCallHasSession
    BY DEF IInv, BridgeOK
  <1> QED
    BY <1>1, Invariance, PTL

\* A row that is completed or failed is never written again: only the bridge
\* that has it open, or the repair of an open one, writes it.
THEOREM TerminalStays == Spec => TerminalRowStays
  <1> DEFINE A == row \in {"completed", "failed"} => row' = row
  <1>1. ASSUME IInv, [Next]_vars
        PROVE  A
    <2> SUFFICES ASSUME row \in {"completed", "failed"} PROVE row' = row
      OBVIOUS
    <2>1. bridge.recorder # "on"
      BY <1>1 DEF IInv, RowOK
    <2>2. \A f, g \in {0, 1} : Teardown(f, g) => row' = row
      BY <2>1 DEF Teardown, Repaired
    <2>3. CASE FailLate \/ \E q \in Request : FailRun(q)
      BY <2>2, <2>3 DEF FailLate, FailRun
    <2>4. CASE Complete
      BY <2>1, <2>4 DEF Complete
    <2>5. CASE \E q \in Request : ReadEvent(q)
      BY <2>5 DEF ReadEvent
    <2>6. CASE UNCHANGED store
      BY <2>6 DEF store
    <2> QED
      BY <1>1, <2>3, <2>4, <2>5, <2>6 DEF Next, ClientStep, BridgeStep, vars,
         CallStart, CallEnd, Close, CallTool, CallNote, Granted, ToolTimeout, CallAbort, Timeout,
         AfterAbort, AfterSecondAbort, ReadTool, StartTool, FinishTool, ReadLast, DrainExpires, BridgeLost
  <1>2. IInv /\ [Next]_vars => [A]_vars
    BY <1>1
  <1> QED
    BY <1>2, Invariance, PTL DEF Spec, TerminalRowStays

-----------------------------------------------------------------------------
(* The row an acknowledged end leaves open *)

\* The bridge that opened the row still has its recorder, unless storage failed.
OpenOK ==
    /\ owner <= spawns /\ (proc # 0 => proc = spawns)
    /\ row = "open" => owner # 0
    /\ row = "open" /\ owner = proc => bridge.recorder = "on" \/ faults > 0

LEMMA OpenKept ==
    ASSUME IInv, OpenOK, UNCHANGED <<row, owner, faults>>, bridge'.recorder = bridge.recorder,
           UNCHANGED <<proc, spawns>> \/ (proc = 0 /\ proc' = spawns + 1 /\ spawns' = spawns + 1)
    PROVE  OpenOK'
  <1>1. owner \in Int /\ spawns \in Int
    BY BridgeAssumption DEF IInv, TypeOK
  <1> QED
    BY <1>1 DEF OpenOK

LEMMA OpenGone ==
    ASSUME OpenOK, proc' = 0, UNCHANGED <<spawns, owner>>, row' = "open" => row = "open"
    PROVE  OpenOK'
  BY DEF OpenOK

LEMMA OpenSend ==
    ASSUME IInv, OpenOK, NEW q, Send(q), UNCHANGED <<row, owner, faults>>
    PROVE  OpenOK'
  <1>1. CASE bridge' = [bridge EXCEPT !.stdin = Append(@, q)]
             /\ proc' = (IF proc = 0 THEN spawns + 1 ELSE proc)
             /\ spawns' = (IF proc = 0 THEN spawns + 1 ELSE spawns)
    <2>1. bridge'.recorder = bridge.recorder
      BY <1>1 DEF IInv, TypeOK, Process
    <2> QED
      BY <1>1, <2>1, OpenKept
  <1>2. CASE UNCHANGED <<life, bridge>>
    BY <1>2, OpenKept DEF life
  <1>3. CASE Recycle({q})
    BY <1>3, OpenGone DEF Recycle
  <1> QED
    BY <1>1, <1>2, <1>3 DEF Send

LEMMA TeardownOpen ==
    ASSUME IInv, NEW f \in {0, 1}, NEW g \in {0, 1}, Teardown(f, g), row' = "open"
    PROVE  /\ row = "open" /\ g = 1 /\ (f = 1 <=> bridge.recorder = "on") /\ faults' = faults + f + g
  BY DEF Teardown, Repaired, IInv, RowOK

LEMMA OpenStep ==
    ASSUME IInv, OpenOK, [Next]_vars
    PROVE  OpenOK'
  <1>0. bridge \in Process /\ faults \in Nat
    BY BridgeAssumption DEF IInv, TypeOK
  <1>1. CASE UNCHANGED <<life, bridge, store>>
    BY <1>1, OpenKept DEF life, store
  <1>2. CASE CallStart \/ CallEnd \/ \E q \in Request : CallNote(q) \/ CallAbort(q)
    <2>1. PICK q : Send(q)
      BY <1>2 DEF CallStart, CallEnd, CallNote, CallAbort
    <2>2. UNCHANGED <<row, owner, faults>>
      BY <1>2 DEF CallStart, CallEnd, CallNote, CallAbort, store
    <2> QED
      BY <2>1, <2>2, OpenSend
  <1>3. ASSUME NEW t \in Tool, CallTool(t) \/ Granted(t) \/ ToolTimeout(t)
        PROVE  OpenOK'
    <2>1. CASE UNCHANGED <<life, bridge, store>>
      BY <1>1, <2>1
    <2>2. CASE Send(t) /\ UNCHANGED store
      BY <2>2, OpenSend DEF store
    <2> QED
      BY <1>3, <2>1, <2>2 DEF CallTool, Granted, ToolTimeout
  <1>4. ASSUME (\E S : Recycle(S)) /\ UNCHANGED store
        PROVE  OpenOK'
    BY <1>4, OpenGone DEF Recycle, store
  <1>5. ASSUME NEW q \in Request, Timeout(q)
        PROVE  OpenOK'
    BY <1>1, <1>4, <1>5 DEF Timeout
  <1>6. CASE AfterAbort \/ AfterSecondAbort
    <2>1. UNCHANGED store /\ ((\E S : Recycle(S)) \/ UNCHANGED <<life, bridge>>)
      BY <1>6 DEF AfterAbort, AfterSecondAbort
    <2> QED
      BY <1>1, <1>4, <2>1
  <1>7. CASE Close
    BY <1>7, OpenGone DEF Close, store
  <1>8. CASE BridgeLost
    BY <1>4, <1>8 DEF BridgeLost
  <1>9. ASSUME NEW q, ReadTool(q) \/ StartTool(q) \/ FinishTool(q) \/ ReadLast(q) \/ DrainExpires
        PROVE  OpenOK'
    <2>1. UNCHANGED <<life, store>>
      BY <1>9 DEF ReadTool, StartTool, FinishTool, ReadLast, DrainExpires
    <2>2. bridge'.recorder = bridge.recorder
      BY <1>0, <1>9 DEF ReadTool, StartTool, FinishTool, ReadLast, DrainExpires, Process
    <2> QED
      BY <2>1, <2>2, OpenKept DEF life, store
  <1>10. ASSUME NEW q \in Request, ReadEvent(q)
         PROVE  OpenOK'
    <2>1. proc # 0
      BY <1>10, RestLines DEF ReadEvent
    <2>2. PICK ins \in BOOLEAN, fault \in BOOLEAN :
             /\ fault => bridge.recorder = "none"
             /\ ins <=> bridge.recorder = "none" /\ row = "none" /\ ~fault
             /\ faults' = IF fault THEN faults + 1 ELSE faults
             /\ row' = IF ins THEN "open" ELSE row
             /\ owner' = IF ins THEN proc ELSE owner
             /\ bridge' = [bridge EXCEPT !.stdin = Rest, !.session = @ \/ q = Start,
                                         !.recorder = OpenRecorder(ins)]
      BY <1>10 DEF ReadEvent
    <2>3. bridge'.recorder = OpenRecorder(ins)
      BY <1>0, <2>2 DEF Process
    <2>4. UNCHANGED <<proc, spawns>>
      BY <1>10 DEF ReadEvent, life
    <2>5. CASE ins
      BY <1>0, <2>1, <2>2, <2>3, <2>4, <2>5, BridgeAssumption DEF OpenOK, OpenRecorder, IInv, TypeOK
    <2>6. CASE ~ins
      <3>1. row' = row /\ owner' = owner /\ faults' >= faults /\ faults' \in Nat
        BY <1>0, <2>2, <2>6
      <3>2. bridge.recorder = "on" => bridge'.recorder = "on"
        BY <2>3 DEF OpenRecorder
      <3> QED
        BY <1>0, <2>4, <3>1, <3>2 DEF OpenOK
    <2> QED
      BY <2>5, <2>6
  <1>11. CASE Complete
    <2>1. UNCHANGED <<proc, spawns, owner>>
      BY <1>11 DEF Complete, life
    <2>2. PICK fault \in {0, 1} :
             /\ fault = 1 => bridge.recorder = "on"
             /\ faults' = faults + fault
             /\ row' = IF bridge.recorder = "on" /\ fault = 0 THEN "completed" ELSE row
      BY <1>11 DEF Complete
    <2>3. row' = "open" => row = "open" /\ (bridge.recorder = "on" => faults' > 0) /\ faults' >= faults
      BY <1>0, <2>2
    <2> QED
      BY <1>0, <2>1, <2>2, <2>3 DEF OpenOK
  <1>12. ASSUME NEW q \in Request, FailRun(q)
         PROVE  OpenOK'
    <2>1. UNCHANGED <<proc, spawns, owner>>
      BY <1>12 DEF FailRun, life
    <2>2. PICK f \in {0, 1}, g \in {0, 1} : Teardown(f, g)
      BY <1>12 DEF FailRun
    <2>3. row' = "open" => row = "open" /\ faults' > 0
      BY <1>0, <2>2, TeardownOpen
    <2> QED
      BY <2>1, <2>3 DEF OpenOK
  <1>13. CASE FailLate
    <2>1. PICK f \in {0, 1}, g \in {0, 1} : Teardown(f, g)
      BY <1>13 DEF FailLate
    <2>2. row' = "open" => row = "open"
      BY <2>1, TeardownOpen
    <2> QED
      BY <1>13, <2>2, OpenGone DEF FailLate, Recycle
  <1>14. CASE UNCHANGED vars
    BY <1>1, <1>14 DEF vars
  <1> QED
    BY <1>2, <1>3, <1>5, <1>6, <1>7, <1>8, <1>9, <1>10, <1>11, <1>12, <1>13, <1>14
       DEF Next, ClientStep, BridgeStep

\* Only the handling of agent_end answers it with ok.
LEMMA EndAnswered ==
    ASSUME IInv, [Next]_vars, call[End] = "pending", call'[End] = "ok"
    PROVE  Complete \/ FailRun(End)
  <1>0. End \in Request /\ End \notin Tool /\ call \in [Request -> CallStates]
    BY BridgeAssumption DEF Request, IInv, TypeOK
  <1>1. ASSUME NEW S, Settle(S, "error")
        PROVE  FALSE
    BY <1>0, <1>1 DEF Settle
  <1>2. ASSUME NEW q \in Request \ {End}, NEW o, Respond(q, o)
        PROVE  FALSE
    <2>1. CASE Settle({q}, o)
      BY <1>0, <1>2, <2>1 DEF Settle
    <2> QED
      BY <1>2, <2>1 DEF Respond, client
  <1>3. ~(\E S : Recycle(S))
    BY <1>1 DEF Recycle
  <1>4. ~(\E q \in Request \ {End} : Send(q))
    BY <1>0, <1>1, <1>3 DEF Send
  <1>5. ~CallStart /\ ~CallEnd /\ \A q \in Request : ~CallNote(q) /\ ~CallAbort(q)
    BY <1>0, <1>4, BridgeAssumption DEF CallStart, CallEnd, CallNote, CallAbort, Request, Start, Abort, End
  <1>6. \A t \in Tool : ~CallTool(t) /\ ~Granted(t) /\ ~ToolTimeout(t)
    BY <1>0, <1>1, <1>4 DEF CallTool, Granted, ToolTimeout, Request
  <1>7. ~AfterAbort /\ ~AfterSecondAbort /\ ~FailLate /\ ~BridgeLost /\ \A q \in Request : ~Timeout(q)
    BY <1>1, <1>3 DEF AfterAbort, AfterSecondAbort, FailLate, BridgeLost, Timeout
  <1>8. ~Close
    BY <1>0 DEF Close, Pending
  <1>9. \A t \in Tool : ~ReadTool(t) /\ ~StartTool(t) /\ ~FinishTool(t)
    BY <1>0, <1>2 DEF ReadTool, StartTool, FinishTool, client, Request
  <1>10. \A q \in Request : ~ReadEvent(q) /\ ~ReadLast(q) /\ (q # End => ~FailRun(q))
    BY <1>0, <1>2, BridgeAssumption DEF ReadEvent, ReadLast, FailRun, client, Start, End
  <1>11. ~DrainExpires /\ ~UNCHANGED vars
    BY DEF DrainExpires, client, vars
  <1> QED
    BY <1>5, <1>6, <1>7, <1>8, <1>9, <1>10, <1>11 DEF Next, ClientStep, BridgeStep

\* An acknowledged end leaves the row open only if the storage failed, or when
\* the bridge is another than the one that opened the row; a terminated run's
\* only if the repair failed, and the live recorder before it.
THEOREM EndCloses == Spec => EndedRunClosed
  <1> DEFINE A == (call[End] = "pending" /\ call'[End] = "ok" /\ row' = "open")
                    => IF endFails
                         THEN faults' - faults = IF bridge.recorder = "on" THEN 2 ELSE 1
                         ELSE faults' > 0 \/ owner # proc
  <1>1. ASSUME IInv, OpenOK, [Next]_vars
        PROVE  A
    <2> SUFFICES ASSUME call[End] = "pending", call'[End] = "ok", row' = "open"
                 PROVE  IF endFails
                          THEN faults' - faults = IF bridge.recorder = "on" THEN 2 ELSE 1
                          ELSE faults' > 0 \/ owner # proc
      OBVIOUS
    <2>1. Complete \/ FailRun(End)
      BY <1>1, EndAnswered
    <2>2. faults \in Nat
      BY <1>1, BridgeAssumption DEF IInv, TypeOK
    <2>3. CASE Complete
      <3>1. ~endFails
        BY <2>3 DEF Complete, IsFailure
      <3>2. PICK fault \in {0, 1} :
               /\ faults' = faults + fault
               /\ row' = IF bridge.recorder = "on" /\ fault = 0 THEN "completed" ELSE row
        BY <2>3 DEF Complete
      <3> QED
        BY <1>1, <2>2, <3>1, <3>2 DEF OpenOK
    <2>4. CASE FailRun(End)
      <3>1. endFails
        BY <2>4 DEF FailRun, IsFailure, Abort, End
      <3>2. PICK f \in {0, 1}, g \in {0, 1} : Teardown(f, g)
        BY <2>4 DEF FailRun
      <3>3. g = 1 /\ (f = 1 <=> bridge.recorder = "on") /\ faults' = faults + f + g
        BY <1>1, <3>2, TeardownOpen
      <3> QED
        BY <2>2, <3>1, <3>3
    <2> QED
      BY <2>1, <2>3, <2>4
  <1>2. Init => OpenOK
    BY DEF Init, OpenOK
  <1>3. IInv /\ OpenOK /\ [Next]_vars => OpenOK'
    BY OpenStep
  <1>4. IInv /\ OpenOK /\ [Next]_vars => [A]_vars
    BY <1>1
  <1> QED
    BY <1>2, <1>3, <1>4, Invariance, PTL DEF Spec, EndedRunClosed
=============================================================================
