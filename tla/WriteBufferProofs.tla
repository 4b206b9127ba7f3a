--------------------------- MODULE WriteBufferProofs ---------------------------
(***************************************************************************)
(* Proofs about WriteBuffer, for every set of rows, every configuration    *)
(* and every schedule of recorders and writer: first what it keeps and     *)
(* what it sheds, then the order in which rows leave it, the LossyQueue of *)
(* the admitted rows that it implements, and its counters.                 *)
(***************************************************************************)
EXTENDS WriteBuffer, SequenceFacts, FiniteSetTheorems

(* The calls and the stages are told apart by their names.                 *)
Calls == {Idle, CappingRetries} \cup [call : {"enqueue"}, row : Row]
           \cup [call : {"drain"}, max : DrainMax]

LEMMA TierOfRow == \A row : Tier(row) \in Tiers
  BY DEF Tier, Tiers, TELEMETRY, CRITICAL

(* Removing the front of a non-empty tier keeps every type.                *)
LEMMA PopFrontType ==
  ASSUME TypeOK, NEW t \in Tiers, tiers[t] # <<>>, PopFront(t)
  PROVE  /\ Head(tiers[t]) \in Stamped
         /\ tiers' \in [Tiers -> Seq(Stamped)]
         /\ totalCount' \in Int /\ totalBytes' \in Int
         /\ depthByRun' \in [Run -> Nat]
<1>1. Head(tiers[t]) \in Stamped /\ Tail(tiers[t]) \in Seq(Stamped)
  BY HeadTailProperties DEF TypeOK
<1>2. Head(tiers[t]).row.run \in Run /\ Head(tiers[t]).row.bytes \in Nat
  BY <1>1, RowAssumption DEF Stamped
<1>3. depthByRun' \in [Run -> Nat]
  <2> DEFINE run == Head(tiers[t]).row.run
  <2>1. run \in Run /\ depthByRun[run] \in Nat
    BY <1>2 DEF TypeOK
  <2>2. depthByRun' = [depthByRun EXCEPT ![run] = IF @ = 0 THEN 0 ELSE @ - 1]
    BY DEF PopFront, DecrementDepth
  <2>3. (IF depthByRun[run] = 0 THEN 0 ELSE depthByRun[run] - 1) \in Nat
    BY <2>1
  <2> HIDE DEF run
  <2>4. QED
    BY <2>1, <2>2, <2>3 DEF TypeOK
<1>4. tiers' \in [Tiers -> Seq(Stamped)]
  <2>1. tiers' = [tiers EXCEPT ![t] = Tail(@)]
    BY DEF PopFront
  <2>2. QED
    BY <1>1, <2>1 DEF TypeOK
<1>5. totalCount' \in Int /\ totalBytes' \in Int
  <2> DEFINE bytes == Head(tiers[t]).row.bytes
  <2>1. totalCount' = totalCount - 1 /\ totalBytes' = totalBytes - bytes
    BY DEF PopFront
  <2>2. bytes \in Nat /\ totalCount \in Int /\ totalBytes \in Int
    BY <1>2 DEF TypeOK
  <2> HIDE DEF bytes
  <2>3. QED
    BY <2>1, <2>2
<1>6. QED
  BY <1>1, <1>3, <1>4, <1>5

LEMMA InitType == Init => TypeOK
  BY BoundsAssumption, FS_EmptySet DEF Init, TypeOK, Idle, Tiers, Edge

LEMMA NextType == TypeOK /\ [Next]_vars => TypeOK'
<1> SUFFICES ASSUME TypeOK, [Next]_vars PROVE TypeOK'
  OBVIOUS
<1> USE TierOfRow
<1>1. ASSUME NEW row \in Row, Refuse(row) PROVE TypeOK'
  BY <1>1 DEF Refuse, CountDrop, TypeOK, bufferVars, edgeVars, writerVars
<1>2. ASSUME NEW row \in Row, BeginEnqueue(row) PROVE TypeOK'
  BY <1>2 DEF BeginEnqueue, Enqueueing, TypeOK, bufferVars, edgeVars, writerVars
<1>3. CASE EvictVictim
  <2>1. PICK t \in Tiers : tiers[t] # <<>> /\ PopFront(t) /\ CountDrop(t)
    BY <1>3 DEF EvictVictim, VictimTiers
  <2>2. dropped' \in [Tiers -> Nat]
    BY <2>1 DEF CountDrop, TypeOK
  <2>4. /\ tiers' \in [Tiers -> Seq(Stamped)] /\ depthByRun' \in [Run -> Nat]
        /\ totalCount' \in Int /\ totalBytes' \in Int
    BY <2>1, PopFrontType
  <2>5. QED
    BY <1>3, <2>2, <2>4 DEF EvictVictim, TypeOK, edgeVars, writerVars
<1>4. CASE GiveUp
  BY <1>4 DEF GiveUp, CountDrop, TypeOK, Idle, bufferVars, edgeVars, writerVars
<1>5. CASE Admit
  <2>1. op.row \in Row
    BY <1>5 DEF Admit, TypeOK, Idle, CappingRetries
  <2>2. op.row.run \in Run /\ op.row.bytes \in Nat
    BY <2>1, RowAssumption
  <2> DEFINE new == [stamp |-> enqueueCounter, row |-> op.row]
             tier == Tier(op.row)
  <2>3. new \in Stamped
    BY <2>1 DEF Stamped, TypeOK
  <2>4. tier \in Tiers
    OBVIOUS
  <2>5. tiers' = [tiers EXCEPT ![tier] = Append(@, new)]
    BY <1>5 DEF Admit
  <2>6. depthByRun' \in [Run -> Nat]
    <3> DEFINE run == op.row.run
    <3>1. depthByRun' = [depthByRun EXCEPT ![run] = @ + 1]
      BY <1>5 DEF Admit
    <3>2. run \in Run /\ depthByRun \in [Run -> Nat]
      BY <2>2 DEF TypeOK
    <3> HIDE DEF run
    <3>3. QED
      BY <3>1, <3>2
  <2> HIDE DEF new, tier
  <2>7. tiers' \in [Tiers -> Seq(Stamped)]
    BY <2>3, <2>4, <2>5 DEF TypeOK
  <2>8. totalCount' \in Int /\ totalBytes' \in Int /\ enqueueCounter' \in Nat
    BY <1>5, <2>2, SMTT(30) DEF Admit, TypeOK
  <2>9. /\ op' = Idle
        /\ UNCHANGED <<config, dropped, retryQueue, edgeVars, writerVars, offered>>
    BY <1>5 DEF Admit
  <2>10. QED
    BY <2>6, <2>7, <2>8, <2>9 DEF TypeOK, edgeVars, writerVars
<1>6. CASE EnqueueEdge
  <2>1. edgesOffered + 1 \in Edge /\ edgesOffered' \in 0 .. MaxEdges
    BY <1>6, BoundsAssumption DEF EnqueueEdge, TypeOK, Edge
  <2>2. QED
    BY <1>6, <2>1 DEF EnqueueEdge, TypeOK, bufferVars, writerVars
<1>7. ASSUME NEW max \in DrainMax, BeginDrain(max) PROVE TypeOK'
  <2>1. max \in Nat
    BY BoundsAssumption
  <2>2. batch' \in Seq(Stamped) /\ retryQueue' \in Seq(Stamped)
    BY <1>7, <2>1 DEF BeginDrain, TypeOK, Least
  <2>3. op' \in Calls
    BY <1>7 DEF BeginDrain, Merging, Calls
  <2>4. QED
    BY <1>7, <2>2, <2>3 DEF BeginDrain, TypeOK, Calls, bufferVars, edgeVars
<1>8. CASE MergeOne
  <2>1. PICK t \in Tiers : /\ IsOldestFront(t)
                           /\ batch' = Append(batch, Head(tiers[t]))
                           /\ PopFront(t)
    BY <1>8 DEF MergeOne
  <2>2. tiers[t] # <<>>
    BY <2>1 DEF IsOldestFront
  <2>3. /\ tiers' \in [Tiers -> Seq(Stamped)] /\ depthByRun' \in [Run -> Nat]
        /\ totalCount' \in Int /\ totalBytes' \in Int
        /\ Head(tiers[t]) \in Stamped
    BY <2>1, <2>2, PopFrontType
  <2>4. batch' \in Seq(Stamped)
    BY <2>1, <2>3 DEF TypeOK
  <2>5. QED
    BY <1>8, <2>3, <2>4 DEF MergeOne, TypeOK, edgeVars
<1>9. CASE EndDrain
  BY <1>9 DEF EndDrain, TypeOK, Idle, bufferVars, edgeVars
<1>10. CASE DrainEdges
  BY <1>10 DEF DrainEdges, TypeOK, bufferVars
<1>11. CASE HandOver
  BY <1>11 DEF HandOver, TypeOK, bufferVars
<1>12. CASE Requeue
  BY <1>12 DEF Requeue, TypeOK, CappingRetries, bufferVars
<1>13. CASE ShedRetry
  <2>1. retryQueue' \in Seq(Stamped)
    BY <1>13 DEF ShedRetry, TypeOK
  <2>2. dropped' \in [Tiers -> Nat]
    BY <1>13 DEF ShedRetry, CountDrop, TypeOK
  <2>3. QED
    BY <1>13, <2>1, <2>2 DEF ShedRetry, TypeOK, bufferVars, edgeVars, writerVars
<1>14. CASE EndRequeue
  <2>1. config.maxItems \in Nat
    BY ConfigAssumption DEF TypeOK
  <2>2. retryEdges' \in Seq(Edge)
    BY <1>14, <2>1 DEF EndRequeue, TypeOK, Least
  <2>3. QED
    BY <1>14, <2>2 DEF EndRequeue, TypeOK, Idle, bufferVars
<1>15. CASE UNCHANGED vars
  BY <1>15 DEF vars, TypeOK, bufferVars, edgeVars, writerVars
<1>16. QED
  BY <1>1, <1>2, <1>3, <1>4, <1>5, <1>6, <1>7, <1>8, <1>9, <1>10, <1>11,
     <1>12, <1>13, <1>14, <1>15 DEF Next, Enqueue, Writer

(* Every variable keeps its type.                                          *)
THEOREM TypeCorrect == Spec => []TypeOK
  BY InitType, NextType, PTL DEF Spec

-----------------------------------------------------------------------------
(* Counting: capacity and conservation *)

(* The lock and the writer's stage agree, a merge starts with no retries   *)
(* left, and the writer holds nothing outside its cycle.                   *)
ControlInv ==
  /\ (op.call = "drain") <=> (stage = "drain")
  /\ (op.call = "requeue") <=> (stage = "requeue")
  /\ stage = "drain" => retryQueue = <<>>
  /\ stage \in {"idle", "requeue"} => batch = <<>>
  /\ stage # "insert" => batchEdges = <<>>

(* What a merge can still take fits beside what it has taken.              *)
RoomInv ==
  /\ totalCount <= config.maxItems
  /\ totalBytes <= config.maxBytes
  /\ stage # "requeue" => Len(retryQueue) <= config.maxItems
  /\ stage = "drain" => Len(batch) + totalCount <= 2 * config.maxItems
  /\ Len(batch) + Len(retryQueue) <= 2 * config.maxItems

CountInv ==
  /\ ControlInv
  /\ CountIsOccupancy
  /\ RoomInv
  /\ IsFiniteSet(offered) /\ Conservation

LEMMA TierNames ==
  /\ Tiers = {TELEMETRY, DIAGNOSTIC, STRUCTURAL, CRITICAL}
  /\ TELEMETRY # DIAGNOSTIC /\ TELEMETRY # STRUCTURAL /\ TELEMETRY # CRITICAL
  /\ DIAGNOSTIC # STRUCTURAL /\ DIAGNOSTIC # CRITICAL /\ STRUCTURAL # CRITICAL
  BY DEF Tiers, TELEMETRY, DIAGNOSTIC, STRUCTURAL, CRITICAL

LEMMA CountsAreNat ==
  ASSUME TypeOK
  PROVE  /\ \A t \in Tiers : Len(tiers[t]) \in Nat /\ dropped[t] \in Nat
         /\ LiveCount \in Nat /\ DropCount \in Nat
<1>1. \A t \in Tiers : Len(tiers[t]) \in Nat
  BY LenProperties DEF TypeOK
<1>2. \A t \in Tiers : dropped[t] \in Nat
  BY DEF TypeOK
<1>3. LiveCount \in Nat
  <2> DEFINE len(u) == Len(tiers[u])
  <2>1. \A u \in Tiers : len(u) \in Nat
    BY <1>1
  <2>2. LiveCount = len(TELEMETRY) + len(DIAGNOSTIC) + len(STRUCTURAL) + len(CRITICAL)
    BY DEF LiveCount
  <2> HIDE DEF len
  <2>3. /\ len(TELEMETRY) \in Nat /\ len(DIAGNOSTIC) \in Nat
        /\ len(STRUCTURAL) \in Nat /\ len(CRITICAL) \in Nat
    BY <2>1, TierNames
  <2>4. QED
    BY <2>2, <2>3
<1>4. DropCount \in Nat
  BY <1>2, TierNames DEF DropCount
<1>5. QED
  BY <1>1, <1>2, <1>3, <1>4

LEMMA LensAreNat ==
  ASSUME TypeOK
  PROVE  /\ Len(retryQueue) \in Nat /\ Len(batch) \in Nat /\ Len(handedOver) \in Nat
         /\ config.maxItems \in Nat /\ config.maxBytes \in Nat
  BY ConfigAssumption, LenProperties DEF TypeOK

(* Splitting a queue splits its length.                                    *)
LEMMA SplitLen ==
  ASSUME NEW S, NEW q \in Seq(S), NEW k \in 0 .. Len(q)
  PROVE  Len(SubSeq(q, 1, k)) = k /\ Len(SubSeq(q, k + 1, Len(q))) = Len(q) - k
<1>1. Len(q) \in Nat /\ k \in Nat /\ k <= Len(q)
  BY LenProperties
<1>2. /\ \A i \in 1 .. k : q[i] \in S
      /\ \A i \in k + 1 .. Len(q) : q[i] \in S
  BY <1>1, ElementOfSeq
<1>3. Len(SubSeq(q, 1, k)) = IF 1 <= k THEN k - 1 + 1 ELSE 0
  BY <1>1, <1>2, SubSeqProperties
<1>4. Len(SubSeq(q, k + 1, Len(q))) = IF k + 1 <= Len(q) THEN Len(q) - (k + 1) + 1 ELSE 0
  BY <1>1, <1>2, SubSeqProperties
<1>5. QED
  BY <1>1, <1>3, <1>4

(* The step changes the length of tier t, by d, and of no other tier.      *)
LenMoves(t, d) ==
  \A u \in Tiers : Len(tiers'[u]) = Len(tiers[u]) + (IF u = t THEN d ELSE 0)

(* The occupancy moves with the length of the one tier that changes.       *)
LEMMA LiveCountChange ==
  ASSUME TypeOK, NEW t \in Tiers, NEW d \in Int, LenMoves(t, d)
  PROVE  LiveCount' = LiveCount + d /\ LiveCount >= Len(tiers[t])
<1> DEFINE before(u) == Len(tiers[u])
           after(u) == Len(tiers'[u])
<1>1. \A u \in Tiers : before(u) \in Nat /\ after(u) = before(u) + (IF u = t THEN d ELSE 0)
  BY CountsAreNat DEF LenMoves
<1>2. /\ LiveCount = before(TELEMETRY) + before(DIAGNOSTIC)
                       + before(STRUCTURAL) + before(CRITICAL)
      /\ LiveCount' = after(TELEMETRY) + after(DIAGNOSTIC)
                        + after(STRUCTURAL) + after(CRITICAL)
  BY DEF LiveCount
<1>3. SUFFICES LiveCount' = LiveCount + d /\ LiveCount >= before(t)
  OBVIOUS
<1> HIDE DEF before, after
<1>4. /\ before(TELEMETRY) \in Nat /\ before(DIAGNOSTIC) \in Nat
      /\ before(STRUCTURAL) \in Nat /\ before(CRITICAL) \in Nat
  BY <1>1, TierNames
<1>5. CASE t = TELEMETRY
  BY <1>1, <1>2, <1>4, <1>5, TierNames
<1>6. CASE t = DIAGNOSTIC
  BY <1>1, <1>2, <1>4, <1>6, TierNames
<1>7. CASE t = STRUCTURAL
  BY <1>1, <1>2, <1>4, <1>7, TierNames
<1>8. CASE t = CRITICAL
  BY <1>1, <1>2, <1>4, <1>8, TierNames
<1>9. QED
  BY <1>5, <1>6, <1>7, <1>8, TierNames

(* One row leaves the tiers, with a size that is not negative.             *)
LEMMA PopFrontCount ==
  ASSUME TypeOK, NEW t \in Tiers, tiers[t] # <<>>, PopFront(t)
  PROVE  /\ LiveCount >= 1 /\ LiveCount' = LiveCount - 1
         /\ totalCount' = totalCount - 1 /\ totalBytes' <= totalBytes
<1>1. Len(tiers[t]) >= 1 /\ Len(Tail(tiers[t])) = Len(tiers[t]) - 1
  BY HeadTailProperties, EmptySeq DEF TypeOK
<1>2. tiers' = [tiers EXCEPT ![t] = Tail(@)]
  BY DEF PopFront
<1>3. Head(tiers[t]).row.bytes \in Nat
  BY PopFrontType, RowAssumption DEF Stamped
<1> DEFINE d == -1
<1>4. d \in Int /\ LenMoves(t, d)
  BY <1>1, <1>2, CountsAreNat DEF TypeOK, LenMoves
<1> HIDE DEF d
<1>5. LiveCount' = LiveCount + d /\ LiveCount >= Len(tiers[t])
  BY <1>4, LiveCountChange
<1>6. LiveCount >= 1 /\ LiveCount' = LiveCount - 1
  BY <1>1, <1>5, CountsAreNat DEF d
<1>7. totalCount' = totalCount - 1 /\ totalBytes' <= totalBytes
  <2> DEFINE bytes == Head(tiers[t]).row.bytes
  <2>1. totalCount' = totalCount - 1 /\ totalBytes' = totalBytes - bytes
    BY DEF PopFront
  <2>2. bytes \in Nat /\ totalBytes \in Int
    BY <1>3 DEF TypeOK
  <2> HIDE DEF bytes
  <2>3. QED
    BY <2>1, <2>2
<1>8. QED
  BY <1>6, <1>7

LEMMA AdmitCount ==
  ASSUME TypeOK, Admit
  PROVE  LiveCount' = LiveCount + 1
<1> DEFINE new == [stamp |-> enqueueCounter, row |-> op.row]
           tier == Tier(op.row)
<1>1. new \in Stamped
  BY DEF Admit, TypeOK, Idle, CappingRetries, Stamped
<1>2. tier \in Tiers
  BY TierOfRow
<1>3. tiers' = [tiers EXCEPT ![tier] = Append(@, new)]
  BY DEF Admit
<1> HIDE DEF new, tier
<1>4. Len(Append(tiers[tier], new)) = Len(tiers[tier]) + 1
  BY <1>1, <1>2, AppendProperties DEF TypeOK
<1>5. LenMoves(tier, 1)
  BY <1>2, <1>3, <1>4, CountsAreNat DEF TypeOK, LenMoves
<1>6. QED
  BY <1>2, <1>5, LiveCountChange

LEMMA CountDropCount ==
  ASSUME TypeOK, NEW t \in Tiers, CountDrop(t)
  PROVE  DropCount' = DropCount + 1
<1>1. \A u \in Tiers : dropped'[u] = dropped[u] + (IF u = t THEN 1 ELSE 0)
  BY DEF CountDrop, TypeOK
<1>2. \A u \in Tiers : dropped[u] \in Nat
  BY CountsAreNat
<1>3. QED
  BY <1>1, <1>2, TierNames DEF DropCount

LEMMA InitCount == Init => CountInv
  BY ConfigAssumption, FS_EmptySet
     DEF Init, CountInv, ControlInv, CountIsOccupancy, RoomInv, Conservation, LiveCount,
         DropCount, Arriving, Idle, Tiers, TELEMETRY, DIAGNOSTIC, STRUCTURAL, CRITICAL

(* Each action keeps the capacity bounds and the sum of all places.        *)
LEMMA NextCount == TypeOK /\ CountInv /\ [Next]_vars => CountInv'
<1> SUFFICES ASSUME TypeOK, CountInv, [Next]_vars PROVE CountInv'
  OBVIOUS
<1> USE DEF CountInv, ControlInv, CountIsOccupancy, RoomInv, Conservation
<1>t. TypeOK'
  BY NextType
<1>n. /\ LiveCount \in Nat /\ DropCount \in Nat
      /\ Len(retryQueue) \in Nat /\ Len(batch) \in Nat /\ Len(handedOver) \in Nat
      /\ config.maxItems \in Nat /\ config.maxBytes \in Nat
      /\ Cardinality(offered) \in Nat
  BY CountsAreNat, LensAreNat, FS_CardinalityType
<1>1. ASSUME NEW row \in Row, Refuse(row) PROVE CountInv'
  <2>1. DropCount' = DropCount + 1
    BY <1>1, CountDropCount, TierOfRow DEF Refuse
  <2>2. IsFiniteSet(offered') /\ Cardinality(offered') = Cardinality(offered) + 1
    BY <1>1, FS_AddElement DEF Refuse
  <2>3. LiveCount' = LiveCount /\ Arriving' = Arriving
    BY <1>1 DEF Refuse, LiveCount, Arriving, bufferVars
  <2>4. QED
    BY <1>1, <1>n, <2>1, <2>2, <2>3 DEF Refuse, Arriving, bufferVars, edgeVars, writerVars
<1>2. ASSUME NEW row \in Row, BeginEnqueue(row) PROVE CountInv'
  <2>1. IsFiniteSet(offered') /\ Cardinality(offered') = Cardinality(offered) + 1
    BY <1>2, FS_AddElement DEF BeginEnqueue
  <2>2. LiveCount' = LiveCount /\ DropCount' = DropCount
    BY <1>2 DEF BeginEnqueue, LiveCount, DropCount, bufferVars
  <2>3. op.call = "idle" /\ op'.call = "enqueue"
    BY <1>2 DEF BeginEnqueue, Idle, Enqueueing
  <2>4. QED
    BY <1>2, <1>n, <2>1, <2>2, <2>3 DEF BeginEnqueue, Arriving, bufferVars, edgeVars, writerVars
<1>3. CASE EvictVictim
  <2>1. PICK t \in Tiers : tiers[t] # <<>> /\ PopFront(t) /\ CountDrop(t)
    BY <1>3 DEF EvictVictim, VictimTiers
  <2>2. LiveCount' = LiveCount - 1 /\ totalCount' = totalCount - 1 /\ totalBytes' <= totalBytes
    BY <2>1, PopFrontCount
  <2>3. DropCount' = DropCount + 1
    BY <2>1, CountDropCount
  <2>4. totalCount \in Int /\ totalBytes \in Int /\ totalBytes' \in Int
    BY <1>t DEF TypeOK
  <2>5. QED
    BY <1>3, <1>n, <2>2, <2>3, <2>4, SMTT(60), ZenonT(30) DEF EvictVictim, Arriving, edgeVars, writerVars
<1>4. CASE GiveUp
  <2>1. DropCount' = DropCount + 1
    BY <1>4, CountDropCount, TierOfRow DEF GiveUp
  <2>2. LiveCount' = LiveCount /\ Arriving = 1 /\ Arriving' = 0
    BY <1>4 DEF GiveUp, LiveCount, Arriving, bufferVars, Idle
  <2>3. QED
    BY <1>4, <1>n, <2>1, <2>2, SMTT(60), ZenonT(30) DEF GiveUp, Idle, bufferVars, edgeVars, writerVars
<1>5. CASE Admit
  <2>1. LiveCount' = LiveCount + 1
    BY <1>5, AdmitCount
  <2>2. DropCount' = DropCount /\ Arriving = 1 /\ Arriving' = 0
    BY <1>5 DEF Admit, DropCount, Arriving, Idle
  <2>3. totalCount \in Int /\ totalBytes \in Int /\ op.row.bytes \in Nat
    <3>1. op.row \in Row
      BY <1>5 DEF Admit, TypeOK, Idle, CappingRetries
    <3>2. QED
      BY <3>1, RowAssumption DEF TypeOK
  <2>4. totalCount < config.maxItems /\ totalBytes + op.row.bytes <= config.maxBytes
    <3> DEFINE maxItems == config.maxItems
               maxBytes == config.maxBytes
               bytes == op.row.bytes
    <3>1. ~(totalCount >= maxItems) /\ ~(totalBytes + bytes > maxBytes)
      BY <1>5 DEF Admit, OverCapacity
    <3>2. /\ totalCount \in Int /\ totalBytes \in Int
          /\ maxItems \in Nat /\ maxBytes \in Nat /\ bytes \in Nat
      BY <1>n, <2>3
    <3>3. SUFFICES totalCount < maxItems /\ totalBytes + bytes <= maxBytes
      OBVIOUS
    <3> HIDE DEF maxItems, maxBytes, bytes
    <3>4. QED
      BY <3>1, <3>2
  <2>5. totalCount' = totalCount + 1 /\ totalBytes' = totalBytes + op.row.bytes
    BY <1>5 DEF Admit
  <2>6. /\ op.call = "enqueue" /\ op' = Idle
        /\ UNCHANGED <<config, retryQueue, edgeVars, writerVars, offered>>
    BY <1>5 DEF Admit
  <2>7. ControlInv'
    BY <2>6 DEF Idle, edgeVars, writerVars
  <2>8. QED
    <3>1. /\ CountIsOccupancy' /\ IsFiniteSet(offered')
          /\ Cardinality(offered') = Cardinality(offered)
          /\ UNCHANGED <<stage, batch, handedOver>>
      BY <2>1, <2>5, <2>6 DEF writerVars
    <3>2. Conservation'
      BY <1>n, <2>1, <2>2, <2>6, <3>1
    <3>3. RoomInv'
      BY <1>n, <2>3, <2>4, <2>5, <2>6, <2>7, <3>1
    <3>4. QED
      BY <2>7, <3>1, <3>2, <3>3
<1>6. CASE EnqueueEdge
  BY <1>6 DEF EnqueueEdge, LiveCount, DropCount, Arriving, bufferVars, writerVars
<1>7. ASSUME NEW max \in DrainMax, BeginDrain(max) PROVE CountInv'
  <2> DEFINE k == Least(max, Len(retryQueue))
  <2>1. max \in Nat /\ k \in Nat /\ k <= Len(retryQueue) /\ (k < max => k = Len(retryQueue))
    BY <1>n, BoundsAssumption DEF Least
  <2>2. Len(batch') = k /\ Len(retryQueue') = Len(retryQueue) - k
    <3>1. /\ batch' = SubSeq(retryQueue, 1, k)
          /\ retryQueue' = SubSeq(retryQueue, k + 1, Len(retryQueue))
          /\ retryQueue \in Seq(Stamped)
      BY <1>7 DEF BeginDrain, TypeOK
    <3> HIDE DEF k
    <3>2. k \in 0 .. Len(retryQueue)
      BY <1>n, <2>1
    <3>3. QED
      BY <3>1, <3>2, SplitLen
  <2>3. /\ UNCHANGED <<config, totalCount, totalBytes, dropped, batchEdges, handedOver, offered>>
        /\ op = Idle /\ stage = "idle" /\ tiers' = tiers
    BY <1>7 DEF BeginDrain, bufferVars, edgeVars
  <2>4. LiveCount' = LiveCount /\ DropCount' = DropCount
    BY <2>3 DEF LiveCount, DropCount
  <2>5. Arriving = 0
    BY <2>3 DEF Arriving, Idle
  <2>6. Len(batch) = 0 /\ batchEdges = <<>> /\ totalCount \in Int
    BY <2>3 DEF TypeOK
  <2> HIDE DEF k
  <2>7. CASE totalCount = 0 \/ k >= max
    <3>1. op' = Idle /\ stage' = "edges"
      BY <1>7, <2>7 DEF BeginDrain, k
    <3>2. Arriving' = 0 /\ ControlInv'
      BY <2>3, <2>6, <3>1 DEF Arriving, Idle
    <3>3. QED
      BY <1>n, <2>1, <2>2, <2>3, <2>4, <2>5, <2>6, <3>1, <3>2
  <2>8. CASE ~(totalCount = 0 \/ k >= max)
    <3>1. op' = Merging(max) /\ stage' = "drain"
      BY <1>7, <2>8 DEF BeginDrain, k
    <3>2. k < max
      BY <2>1, <2>8
    <3>3. Len(retryQueue') = 0 /\ retryQueue' = <<>>
      <4>1. Len(retryQueue') = 0
        BY <1>n, <2>1, <2>2, <3>2
      <4>2. retryQueue' \in Seq(Stamped)
        BY <1>t DEF TypeOK
      <4>3. QED
        BY <4>1, <4>2, EmptySeq
    <3>4. Arriving' = 0 /\ ControlInv'
      BY <2>3, <2>6, <3>1, <3>3 DEF Arriving, Merging
    <3>5. QED
      BY <1>n, <2>1, <2>2, <2>3, <2>4, <2>5, <2>6, <3>1, <3>2, <3>3, <3>4
  <2>9. QED
    BY <2>7, <2>8
<1>8. CASE MergeOne
  <2>1. PICK t \in Tiers : /\ tiers[t] # <<>>
                           /\ batch' = Append(batch, Head(tiers[t]))
                           /\ PopFront(t)
    BY <1>8 DEF MergeOne, IsOldestFront
  <2>2. /\ LiveCount >= 1 /\ LiveCount' = LiveCount - 1
        /\ totalCount' = totalCount - 1 /\ totalBytes' <= totalBytes
    BY <2>1, PopFrontCount
  <2>3. Len(batch') = Len(batch) + 1
    BY <2>1, PopFrontType, AppendProperties DEF TypeOK
  <2>4. DropCount' = DropCount /\ Arriving' = Arriving
    BY <1>8 DEF MergeOne, DropCount, Arriving
  <2>5. totalCount \in Int /\ totalBytes \in Int /\ totalBytes' \in Int
    BY <1>t DEF TypeOK
  <2>6. stage = "drain" /\ Len(retryQueue) = 0
    BY <1>8, EmptySeq DEF MergeOne
  <2>7. QED
    <3>1. /\ UNCHANGED <<config, retryQueue, batchEdges, op, stage, handedOver, offered>>
          /\ op.call = "drain"
      BY <1>8 DEF MergeOne, edgeVars
    <3>2. ControlInv'
      BY <2>6, <3>1
    <3>3. CountIsOccupancy' /\ IsFiniteSet(offered')
      BY <2>2, <3>1
    <3>4. Conservation'
      BY <1>n, <2>2, <2>3, <2>4, <3>1
    <3>5. RoomInv'
      <4>1. totalCount' <= config.maxItems
        BY <1>n, <2>2, <2>5
      <4>b. totalBytes' <= config.maxBytes
        <5>1. totalBytes <= config.maxBytes
          OBVIOUS
        <5> HIDE DEF CountInv
        <5>2. QED
          BY <1>n, <2>2, <2>5, <5>1
      <4>2. Len(batch') + totalCount' = Len(batch) + totalCount /\ totalCount >= 1
        BY <1>n, <2>2, <2>3, <2>5
      <4>3. Len(batch) + totalCount <= 2 * config.maxItems
        BY <2>6
      <4>4. Len(batch') + Len(retryQueue) <= 2 * config.maxItems
        BY <1>n, <2>3, <2>5, <2>6, <4>2, <4>3
      <4>5. QED
        BY <1>n, <2>6, <3>1, <4>b, <4>1, <4>2, <4>3, <4>4
    <3>6. QED
      BY <3>2, <3>3, <3>4, <3>5
<1>9. CASE EndDrain
  <2>1. LiveCount' = LiveCount /\ DropCount' = DropCount /\ Arriving = 0 /\ Arriving' = 0
    BY <1>9 DEF EndDrain, LiveCount, DropCount, Arriving, bufferVars, Idle
  <2>2. QED
    BY <1>9, <1>n, <2>1, EmptySeq DEF EndDrain, Idle, bufferVars, edgeVars
<1>10. CASE DrainEdges
  <2>1. LiveCount' = LiveCount /\ DropCount' = DropCount /\ Arriving' = Arriving
    BY <1>10 DEF DrainEdges, LiveCount, DropCount, Arriving, bufferVars
  <2>2. QED
    BY <1>10, <1>n, <2>1 DEF DrainEdges, Idle, bufferVars
<1>11. CASE HandOver
  <2>1. LiveCount' = LiveCount /\ DropCount' = DropCount /\ Arriving' = Arriving
    BY <1>11 DEF HandOver, LiveCount, DropCount, Arriving, bufferVars
  <2>2. Len(handedOver') = Len(handedOver) + Len(batch) /\ Len(batch') = 0
    BY <1>11, ConcatProperties DEF HandOver, TypeOK
  <2>3. QED
    BY <1>11, <1>n, <2>1, <2>2 DEF HandOver, bufferVars
<1>12. CASE Requeue
  <2>1. LiveCount' = LiveCount /\ DropCount' = DropCount /\ Arriving = 0 /\ Arriving' = 0
    BY <1>12 DEF Requeue, LiveCount, DropCount, Arriving, bufferVars, Idle, CappingRetries
  <2>2. Len(retryQueue') = Len(batch) + Len(retryQueue) /\ Len(batch') = 0
    BY <1>12, ConcatProperties DEF Requeue, TypeOK
  <2>3. QED
    BY <1>12, <1>n, <2>1, <2>2 DEF Requeue, CappingRetries, bufferVars
<1>13. CASE ShedRetry
  <2>1. LiveCount' = LiveCount /\ Arriving' = Arriving
    BY <1>13 DEF ShedRetry, LiveCount, Arriving, bufferVars
  <2>2. DropCount' = DropCount + 1
    BY <1>13, CountDropCount, TierOfRow DEF ShedRetry
  <2>3. Len(retryQueue') = Len(retryQueue) - 1
    <3>1. /\ retryQueue' = SubSeq(retryQueue, 1, Len(retryQueue) - 1)
          /\ retryQueue \in Seq(Stamped) /\ Len(retryQueue) > config.maxItems
      BY <1>13 DEF ShedRetry, TypeOK
    <3>2. Len(retryQueue) - 1 \in 0 .. Len(retryQueue)
      BY <1>n, <3>1
    <3>3. QED
      BY <3>1, <3>2, SplitLen
  <2>4. /\ op.call = "requeue" /\ batch = <<>> /\ batchEdges = <<>>
        /\ UNCHANGED <<config, totalCount, totalBytes, batchEdges, op, stage, batch,
                       handedOver, offered>>
    BY <1>13 DEF ShedRetry, bufferVars, edgeVars, writerVars
  <2>5. QED
    BY <1>n, <2>1, <2>2, <2>3, <2>4
<1>14. CASE EndRequeue
  <2>1. LiveCount' = LiveCount /\ DropCount' = DropCount /\ Arriving = 0 /\ Arriving' = 0
    BY <1>14 DEF EndRequeue, LiveCount, DropCount, Arriving, bufferVars, Idle
  <2>2. QED
    BY <1>14, <1>n, <2>1 DEF EndRequeue, Idle, bufferVars
<1>15. CASE UNCHANGED vars
  BY <1>15 DEF vars, LiveCount, DropCount, Arriving, bufferVars, edgeVars, writerVars
<1>16. QED
  BY <1>1, <1>2, <1>3, <1>4, <1>5, <1>6, <1>7, <1>8, <1>9, <1>10, <1>11,
     <1>12, <1>13, <1>14, <1>15 DEF Next, Enqueue, Writer

LEMMA CountsHold == Spec => [](TypeOK /\ CountInv)
<1>1. Init => TypeOK /\ CountInv
  BY InitType, InitCount
<1>2. (TypeOK /\ CountInv) /\ [Next]_vars => (TypeOK /\ CountInv)'
  BY NextType, NextCount
<1>3. QED
  BY <1>1, <1>2, PTL DEF Spec

(* No row is lost without being counted, under every interleaving of       *)
(* enqueue, drain, requeue and the retry cap.                              *)
THEOREM Conserved == Spec => []Conservation
<1>1. CountInv => Conservation
  BY DEF CountInv
<1>2. QED
  BY <1>1, CountsHold, PTL

(* Memory stays bounded: the live tiers by max_items and max_bytes, the    *)
(* retries and the writer's batch together by twice max_items.             *)
THEOREM CapacityKept == Spec => []WithinCapacity
<1>1. CountInv => WithinCapacity
  BY DEF CountInv, ControlInv, RoomInv, WithinCapacity, Idle
<1>2. QED
  BY <1>1, CountsHold, PTL

-----------------------------------------------------------------------------
(* The order of the rows, and the queue that is implemented.               *)

(* The first was admitted before the second.                               *)
Earlier == {p \in Stamped \X Stamped : p[1].stamp < p[2].stamp}

Retries == Range(retryQueue)
Taking  == Range(batch)
Gone    == Range(handedOver)

(* Every part of the way out is in the order of admission, and so are the  *)
(* parts; of the tiers, only each by itself, but no stamp is used twice.   *)
OrderInv ==
  /\ Increasing(handedOver, Earlier) /\ Increasing(batch, Earlier)
  /\ Increasing(retryQueue, Earlier)
  /\ \A t \in Tiers : Increasing(tiers[t], Earlier)
  /\ Gone \X (Taking \cup Retries \cup Live) \subseteq Earlier
  /\ Taking \X (Retries \cup Live) \subseteq Earlier
  /\ Retries \X Live \subseteq Earlier
  /\ \A t, u \in Tiers : t # u =>
       \A e \in Range(tiers[t]), f \in Range(tiers[u]) : e.stamp # f.stamp
  /\ \A e \in Gone \cup Taking \cup Retries \cup Live : e.stamp < enqueueCounter

LEMMA PlaceTypes ==
  ASSUME TypeOK
  PROVE  /\ Gone \subseteq Stamped /\ Taking \subseteq Stamped
         /\ Retries \subseteq Stamped /\ Live \subseteq Stamped
<1>1. Gone \subseteq Stamped /\ Taking \subseteq Stamped /\ Retries \subseteq Stamped
  BY RangeOfSeq DEF TypeOK, Gone, Taking, Retries
<1>2. \A t \in Tiers : Range(tiers[t]) \subseteq Stamped
  BY RangeOfSeq DEF TypeOK
<1>3. QED
  BY <1>1, <1>2 DEF Live

LEMMA EarlierFacts ==
  /\ \A e, f : <<e, f>> \in Earlier => e \in Stamped /\ f \in Stamped /\ e.stamp < f.stamp
  /\ \A e \in Stamped : e.stamp \in Nat
  /\ \A e, f : <<e, f>> \in Earlier => e # f
<1>1. \A e, f : <<e, f>> \in Earlier => e \in Stamped /\ f \in Stamped /\ e.stamp < f.stamp
  BY DEF Earlier
<1>2. \A e \in Stamped : e.stamp \in Nat
  BY DEF Stamped
<1>3. ASSUME NEW e, NEW f, <<e, f>> \in Earlier PROVE e # f
  <2> DEFINE a == e.stamp
             b == f.stamp
  <2>1. a \in Nat /\ b \in Nat /\ a < b
    BY <1>1, <1>2, <1>3
  <2> HIDE DEF a, b
  <2>2. a # b
    BY <2>1
  <2>3. QED
    BY <2>2 DEF a, b
<1>4. QED
  BY <1>1, <1>2, <1>3

LEMMA EmptyRow == Increasing(<<>>, Earlier) /\ Range(<<>>) = {}
  BY IncreasingEmpty

(* The front of tier t leaves the tiers, and the others stay as they are.  *)
LEMMA FrontLeaves ==
  ASSUME TypeOK, OrderInv, NEW t \in Tiers, tiers[t] # <<>>, PopFront(t)
  PROVE  LET e == Head(tiers[t])
         IN  /\ e \in Live /\ e \in Stamped
             /\ Live' = Live \ {e}
             /\ \A u \in Tiers : /\ Increasing(tiers'[u], Earlier)
                                 /\ Range(tiers'[u]) \subseteq Range(tiers[u])
             /\ \A f \in Range(tiers'[t]) : <<e, f>> \in Earlier
<1> DEFINE e == Head(tiers[t])
<1>1. tiers' = [tiers EXCEPT ![t] = Tail(@)]
  BY DEF PopFront
<1>2. tiers[t] \in Seq(Stamped) /\ Increasing(tiers[t], Earlier)
  BY DEF TypeOK, OrderInv
<1>3. /\ e \in Stamped /\ Range(tiers[t]) = {e} \cup Range(Tail(tiers[t]))
      /\ Increasing(Tail(tiers[t]), Earlier)
      /\ \A f \in Range(Tail(tiers[t])) : <<e, f>> \in Earlier
  BY <1>2, HeadOff
<1> HIDE DEF e
<1>4. tiers'[t] = Tail(tiers[t]) /\ \A u \in Tiers : u # t => tiers'[u] = tiers[u]
  BY <1>1 DEF TypeOK
<1>5. ASSUME NEW u \in Tiers
      PROVE  /\ Increasing(tiers'[u], Earlier)
             /\ Range(tiers'[u]) \subseteq Range(tiers[u])
             /\ \A f \in Range(tiers'[u]) : f # e
  <2>1. CASE u = t
    <3>1. \A f \in Range(tiers'[t]) : f # e
      BY <1>3, <1>4, EarlierFacts
    <3>2. QED
      BY <1>3, <1>4, <2>1, <3>1
  <2>2. CASE u # t
    <3>1. \A f \in Range(tiers[u]) : f # e
      BY <1>3, <2>2 DEF OrderInv
    <3>2. QED
      BY <1>4, <2>2, <3>1 DEF OrderInv
  <2>3. QED
    BY <2>1, <2>2
<1>6. Live' = Live \ {e}
  <2>1. Live' \subseteq Live \ {e}
    BY <1>5 DEF Live
  <2>2. Live \ {e} \subseteq Live'
    <3> SUFFICES ASSUME NEW u \in Tiers, NEW f \in Range(tiers[u]), f # e
                 PROVE  f \in Range(tiers'[u])
      BY DEF Live
    <3>1. QED
      BY <1>3, <1>4
  <2>3. QED
    BY <2>1, <2>2
<1>7. e \in Live
  BY <1>3 DEF Live
<1>8. QED
  BY <1>3, <1>4, <1>5, <1>6, <1>7 DEF e

(* Nothing but rows of the tiers leaves: what is left is in order.         *)
LEMMA TiersShrink ==
  ASSUME OrderInv, UNCHANGED <<handedOver, batch, retryQueue, enqueueCounter>>,
         \A u \in Tiers : /\ Increasing(tiers'[u], Earlier)
                          /\ Range(tiers'[u]) \subseteq Range(tiers[u])
  PROVE  OrderInv'
<1>1. Live' \subseteq Live
  BY DEF Live
<1>2. Gone' = Gone /\ Taking' = Taking /\ Retries' = Retries
  BY DEF Gone, Taking, Retries
<1>3. QED
  BY <1>1, <1>2 DEF OrderInv

LEMMA InitOrder == Init => OrderInv
<1> SUFFICES ASSUME Init PROVE OrderInv
  OBVIOUS
<1>1. /\ handedOver = <<>> /\ batch = <<>> /\ retryQueue = <<>>
      /\ \A t \in Tiers : tiers[t] = <<>>
  BY DEF Init
<1>2. Gone = {} /\ Taking = {} /\ Retries = {} /\ Live = {}
  BY <1>1, EmptyRow DEF Gone, Taking, Retries, Live
<1>3. \A t \in Tiers : Range(tiers[t]) = {} /\ Increasing(tiers[t], Earlier)
  BY <1>1, EmptyRow
<1>4. QED
  BY <1>1, <1>2, <1>3, EmptyRow DEF OrderInv

(* An admitted row goes behind all others.                                 *)
LEMMA AdmitRow ==
  ASSUME TypeOK, OrderInv, Admit
  PROVE  /\ OrderInv'
         /\ op.row \in Row
         /\ Live' = Live \cup {[stamp |-> enqueueCounter, row |-> op.row]}
<1> DEFINE new  == [stamp |-> enqueueCounter, row |-> op.row]
           tier == Tier(op.row)
<1>1. op.row \in Row
  BY DEF Admit, TypeOK, Idle, CappingRetries
<1>2. /\ new \in Stamped /\ new.stamp = enqueueCounter /\ tier \in Tiers
      /\ enqueueCounter \in Nat
      /\ tiers' = [tiers EXCEPT ![tier] = Append(@, new)]
      /\ enqueueCounter' = enqueueCounter + 1
      /\ UNCHANGED <<handedOver, batch, retryQueue>>
  BY <1>1, TierOfRow DEF Stamped, TypeOK, Admit, writerVars
<1> HIDE DEF new, tier
<1>3. Gone' = Gone /\ Taking' = Taking /\ Retries' = Retries
  BY <1>2 DEF Gone, Taking, Retries
<1>4. ASSUME NEW e \in Gone \cup Taking \cup Retries \cup Live
      PROVE  <<e, new>> \in Earlier /\ e.stamp \in Nat /\ e.stamp < enqueueCounter
  <2>1. e \in Stamped /\ e.stamp < enqueueCounter
    BY PlaceTypes DEF OrderInv
  <2>2. QED
    BY <1>2, <2>1 DEF Earlier, Stamped
<1>5. /\ tiers'[tier] = Append(tiers[tier], new)
      /\ \A u \in Tiers : u # tier => tiers'[u] = tiers[u]
  BY <1>2 DEF TypeOK
<1>6. Range(tiers'[tier]) = Range(tiers[tier]) \cup {new}
  <2>1. tiers[tier] \in Seq(Stamped)
    BY <1>2 DEF TypeOK
  <2>2. QED
    BY <1>2, <1>5, <2>1, RangeAppend
<1>7. Live' = Live \cup {new}
  BY <1>2, <1>5, <1>6 DEF Live
<1>8. \A u \in Tiers : Increasing(tiers'[u], Earlier)
  <2>1. tiers[tier] \in Seq(Stamped) /\ Increasing(tiers[tier], Earlier)
    BY <1>2 DEF TypeOK, OrderInv
  <2>2. \A e \in Range(tiers[tier]) : <<e, new>> \in Earlier
    BY <1>2, <1>4 DEF Live
  <2>3. Increasing(Append(tiers[tier], new), Earlier)
    BY <1>2, <2>1, <2>2, IncreasingAppend
  <2>4. QED
    BY <1>5, <2>3 DEF OrderInv
<1>9. ASSUME NEW t \in Tiers, NEW u \in Tiers, t # u,
             NEW e \in Range(tiers'[t]), NEW f \in Range(tiers'[u])
      PROVE  e.stamp # f.stamp
  <2>1. ASSUME NEW g \in Live PROVE g.stamp # new.stamp
    <3> DEFINE s == g.stamp
    <3>1. s \in Nat /\ s < enqueueCounter
      BY <1>4
    <3> HIDE DEF s
    <3>2. s # enqueueCounter
      BY <1>2, <3>1
    <3>3. QED
      BY <1>2, <3>2 DEF s
  <2>2. e \in Range(tiers[t]) \/ (t = tier /\ e = new)
    BY <1>5, <1>6
  <2>3. f \in Range(tiers[u]) \/ (u = tier /\ f = new)
    BY <1>5, <1>6
  <2>4. e \in Range(tiers[t]) => e \in Live
    BY DEF Live
  <2>5. f \in Range(tiers[u]) => f \in Live
    BY DEF Live
  <2>6. e \in Range(tiers[t]) /\ f \in Range(tiers[u]) => e.stamp # f.stamp
    BY <1>9 DEF OrderInv
  <2>7. QED
    BY <1>9, <2>1, <2>2, <2>3, <2>4, <2>5, <2>6
<1>10. \A e \in Gone \cup Taking \cup Retries \cup Live' : e.stamp < enqueueCounter'
  <2> SUFFICES ASSUME NEW e \in Gone \cup Taking \cup Retries \cup Live \cup {new}
               PROVE  e.stamp < enqueueCounter + 1
    BY <1>2, <1>7
  <2> DEFINE s == e.stamp
  <2>1. s \in Nat /\ (s < enqueueCounter \/ s = enqueueCounter)
    BY <1>2, <1>4
  <2> HIDE DEF s
  <2>2. s < enqueueCounter + 1
    BY <1>2, <2>1
  <2>3. QED
    BY <2>2 DEF s
<1>11. /\ Gone \X (Taking \cup Retries \cup Live') \subseteq Earlier
       /\ Taking \X (Retries \cup Live') \subseteq Earlier
       /\ Retries \X Live' \subseteq Earlier
  BY <1>4, <1>7 DEF OrderInv
<1>12. OrderInv'
  BY <1>2, <1>3, <1>8, <1>9, <1>10, <1>11 DEF OrderInv
<1>13. QED
  BY <1>1, <1>7, <1>12 DEF new

Pending == Live \cup Taking \cup Retries

(* A drain begins with the front of the retries.                           *)
LEMMA BeginDrainOrder ==
  ASSUME TypeOK, CountInv, OrderInv, NEW max \in DrainMax, BeginDrain(max)
  PROVE  OrderInv' /\ Pending' = Pending
<1> DEFINE k == Least(max, Len(retryQueue))
<1>1. /\ batch' = Taken(retryQueue, k) /\ retryQueue' = Left(retryQueue, k)
      /\ UNCHANGED <<tiers, handedOver, enqueueCounter>>
  BY DEF BeginDrain, Taken, Left, bufferVars
<1>2. k \in 0 .. Len(retryQueue)
  <2>1. max \in Nat /\ Len(retryQueue) \in Nat
    BY BoundsAssumption, LensAreNat
  <2>2. QED
    BY <2>1 DEF Least
<1>3. batch = <<>>
  BY DEF BeginDrain, CountInv, ControlInv
<1> HIDE DEF k
<1>4. /\ Increasing(batch', Earlier) /\ Increasing(retryQueue', Earlier)
      /\ Taking' \X Retries' \subseteq Earlier
  BY <1>1, <1>2, IncreasingSplit DEF OrderInv, TypeOK, Taking, Retries
<1>5. Retries = Taking' \cup Retries' /\ Taking = {}
  BY <1>1, <1>2, <1>3, SplitRange, EmptyRow DEF TypeOK, Taking, Retries
<1>6. Live' = Live /\ Gone' = Gone
  BY <1>1 DEF Live, Gone
<1>7. /\ Gone' \X (Taking' \cup Retries' \cup Live') \subseteq Earlier
      /\ Taking' \X (Retries' \cup Live') \subseteq Earlier
      /\ Retries' \X Live' \subseteq Earlier
  BY <1>4, <1>5, <1>6 DEF OrderInv
<1>8. OrderInv'
  BY <1>1, <1>4, <1>5, <1>6, <1>7 DEF OrderInv
<1>9. QED
  BY <1>5, <1>6, <1>8 DEF Pending

(* The merge takes the row that was admitted first: it goes behind what    *)
(* the batch has and before everything that is still live.                 *)
LEMMA MergeOrder ==
  ASSUME TypeOK, CountInv, OrderInv, MergeOne
  PROVE  OrderInv' /\ Pending' = Pending
<1>1. PICK t \in Tiers : /\ IsOldestFront(t)
                         /\ batch' = Append(batch, Head(tiers[t]))
                         /\ PopFront(t)
  BY DEF MergeOne
<1> DEFINE e == Head(tiers[t])
<1>2. /\ tiers[t] # <<>>
      /\ \A u \in Tiers : tiers[u] # <<>> => e.stamp <= Head(tiers[u]).stamp
  BY <1>1 DEF IsOldestFront
<1>3. /\ e \in Live /\ e \in Stamped /\ Live' = Live \ {e}
      /\ \A u \in Tiers : /\ Increasing(tiers'[u], Earlier)
                          /\ Range(tiers'[u]) \subseteq Range(tiers[u])
      /\ \A f \in Range(tiers'[t]) : <<e, f>> \in Earlier
  BY <1>1, <1>2, FrontLeaves
<1>4. e \in Range(tiers[t])
  BY <1>2, HeadOff, SMTT(30), ZenonT(30) DEF TypeOK
<1>5. ASSUME NEW u \in Tiers, u # t, NEW f \in Range(tiers[u])
      PROVE  <<e, f>> \in Earlier
  <2>1. tiers[u] \in Seq(Stamped) /\ tiers[u] # <<>>
    BY <1>5, EmptyRow DEF TypeOK
  <2> DEFINE g == Head(tiers[u])
  <2>2. g \in Stamped /\ f \in Stamped /\ (f = g \/ <<g, f>> \in Earlier)
    <3>1. Increasing(tiers[u], Earlier)
      BY DEF OrderInv
    <3>2. /\ g \in Stamped /\ Range(tiers[u]) = {g} \cup Range(Tail(tiers[u]))
          /\ \A x \in Range(Tail(tiers[u])) : <<g, x>> \in Earlier
      BY <2>1, <3>1, HeadOff
    <3>3. f \in Stamped
      BY <2>1, RangeOfSeq
    <3>4. QED
      BY <3>2, <3>3
  <2>3. e.stamp <= g.stamp /\ e.stamp # f.stamp
    BY <1>2, <1>4, <1>5, <2>1 DEF OrderInv
  <2> DEFINE a == e.stamp
             b == f.stamp
             c == g.stamp
  <2>4. a \in Nat /\ b \in Nat /\ c \in Nat /\ a <= c /\ (b = c \/ c < b) /\ a # b
    BY <1>3, <2>2, <2>3, EarlierFacts
  <2> HIDE DEF a, b, c
  <2>5. a < b
    BY <2>4
  <2>6. QED
    BY <1>3, <2>2, <2>5 DEF Earlier, a, b
<1>6. \A f \in Live' : <<e, f>> \in Earlier
  <2> SUFFICES ASSUME NEW u \in Tiers, NEW f \in Range(tiers'[u])
               PROVE  <<e, f>> \in Earlier
    BY DEF Live
  <2>1. CASE u = t
    BY <1>3, <2>1
  <2>2. CASE u # t
    BY <1>3, <1>5, <2>2
  <2>3. QED
    BY <2>1, <2>2
<1>7. retryQueue = <<>> /\ UNCHANGED <<retryQueue, handedOver, enqueueCounter>>
  BY DEF MergeOne, CountInv, ControlInv
<1>8. Retries = {} /\ Retries' = {} /\ Gone' = Gone
  BY <1>7, EmptyRow DEF Retries, Gone
<1>9. batch' = Append(batch, e) /\ batch \in Seq(Stamped)
  BY <1>1 DEF TypeOK
<1> HIDE DEF e
<1>10. Taking' = Taking \cup {e}
  BY <1>3, <1>9, RangeAppend DEF Taking
<1>11. Increasing(batch', Earlier)
  <2>1. \A f \in Taking : <<f, e>> \in Earlier
    BY <1>3 DEF OrderInv
  <2>2. QED
    BY <1>3, <1>9, <2>1, IncreasingAppend DEF OrderInv, Taking
<1>12. /\ Gone' \X (Taking' \cup Retries' \cup Live') \subseteq Earlier
       /\ Taking' \X (Retries' \cup Live') \subseteq Earlier
       /\ Retries' \X Live' \subseteq Earlier
  BY <1>3, <1>6, <1>8, <1>10 DEF OrderInv
<1>13. OrderInv'
  BY <1>3, <1>7, <1>8, <1>10, <1>11, <1>12 DEF OrderInv
<1>14. QED
  BY <1>3, <1>8, <1>10, <1>13 DEF Pending

LEMMA HandOverOrder ==
  ASSUME TypeOK, OrderInv, HandOver
  PROVE  /\ OrderInv' /\ Gone' = Gone \cup Taking
         /\ Pending' = Pending \ Taking
         /\ \A e \in Taking, f \in Pending \ Taking : e.stamp < f.stamp
<1>1. /\ handedOver' = handedOver \o batch /\ batch' = <<>>
      /\ UNCHANGED <<tiers, enqueueCounter, retryQueue>>
  BY DEF HandOver, bufferVars
<1>2. Gone' = Gone \cup Taking
  BY <1>1, RangeConcatenation DEF TypeOK, Gone, Taking
<1>3. Taking' = {} /\ Retries' = Retries /\ Live' = Live
  BY <1>1, EmptyRow DEF Taking, Retries, Live
<1>4. Increasing(handedOver', Earlier)
  <2>1. Range(handedOver) \X Range(batch) \subseteq Earlier
    BY DEF OrderInv, Gone, Taking
  <2>2. QED
    BY <1>1, <2>1, IncreasingConcat DEF TypeOK, OrderInv
<1>5. OrderInv'
  BY <1>1, <1>2, <1>3, <1>4, EmptyRow DEF OrderInv
<1>6. \A e \in Taking, f \in Retries \cup Live : <<e, f>> \in Earlier
  BY DEF OrderInv
<1>7. \A e \in Taking, f \in Retries \cup Live : e.stamp < f.stamp /\ e # f
  BY <1>6, EarlierFacts
<1>8. Pending' = Pending \ Taking
  BY <1>3, <1>7 DEF Pending
<1>9. QED
  BY <1>2, <1>5, <1>7, <1>8 DEF Pending

(* A failed batch goes back before the other retries.                      *)
LEMMA RequeueOrder ==
  ASSUME TypeOK, OrderInv, Requeue
  PROVE  OrderInv' /\ Pending' = Pending
<1>1. /\ retryQueue' = batch \o retryQueue /\ batch' = <<>>
      /\ UNCHANGED <<tiers, enqueueCounter, handedOver>>
  BY DEF Requeue, bufferVars
<1>2. Retries' = Taking \cup Retries
  BY <1>1, RangeConcatenation DEF TypeOK, Retries, Taking
<1>3. Taking' = {} /\ Gone' = Gone /\ Live' = Live
  BY <1>1, EmptyRow DEF Taking, Gone, Live
<1>4. Increasing(retryQueue', Earlier)
  <2>1. Range(batch) \X Range(retryQueue) \subseteq Earlier
    BY DEF OrderInv, Retries, Taking
  <2>2. QED
    BY <1>1, <2>1, IncreasingConcat DEF TypeOK, OrderInv
<1>5. OrderInv'
  BY <1>1, <1>2, <1>3, <1>4, EmptyRow DEF OrderInv
<1>6. QED
  BY <1>2, <1>3, <1>5 DEF Pending

(* The cap of the retry queue takes its last row away.                     *)
LEMMA ShedOrder ==
  ASSUME TypeOK, CountInv, OrderInv, ShedRetry
  PROVE  /\ OrderInv'
         /\ \E e \in Pending : Pending' = Pending \ {e}
<1> DEFINE e == retryQueue[Len(retryQueue)]
<1>1. /\ retryQueue' = Taken(retryQueue, Len(retryQueue) - 1)
      /\ UNCHANGED <<tiers, enqueueCounter, handedOver, batch>>
  BY DEF ShedRetry, bufferVars, writerVars, Taken
<1>2. Len(retryQueue) > 0 /\ retryQueue \in Seq(Stamped) /\ Increasing(retryQueue, Earlier)
  <2>1. Len(retryQueue) > config.maxItems
    BY DEF ShedRetry
  <2>2. QED
    BY <2>1, LensAreNat DEF TypeOK, OrderInv
<1>3. /\ e \in Stamped /\ Retries = Retries' \cup {e}
      /\ Increasing(retryQueue', Earlier)
      /\ \A f \in Retries' : <<f, e>> \in Earlier
  BY <1>1, <1>2, LastOff DEF Retries
<1> HIDE DEF e
<1>4. Taking' = Taking /\ Gone' = Gone /\ Live' = Live
  BY <1>1 DEF Taking, Gone, Live
<1>5. OrderInv'
  BY <1>1, <1>3, <1>4 DEF OrderInv
<1>6. Pending' = Pending \ {e} /\ e \in Pending
  <2>1. \A f \in Taking : <<f, e>> \in Earlier
    BY <1>3 DEF OrderInv
  <2>2. \A f \in Live : <<e, f>> \in Earlier
    BY <1>3 DEF OrderInv
  <2>3. e \notin Retries' /\ e \notin Taking /\ e \notin Live
    BY <1>3, <2>1, <2>2, EarlierFacts
  <2>4. QED
    BY <1>3, <1>4, <2>3 DEF Pending
<1>7. QED
  BY <1>5, <1>6

LEMMA NextOrder == TypeOK /\ CountInv /\ OrderInv /\ [Next]_vars => OrderInv'
<1> SUFFICES ASSUME TypeOK, CountInv, OrderInv, [Next]_vars PROVE OrderInv'
  OBVIOUS
<1>1. ASSUME UNCHANGED <<tiers, enqueueCounter, handedOver, batch, retryQueue>>
      PROVE  OrderInv'
  BY <1>1 DEF OrderInv, Gone, Taking, Retries, Live
<1>2. ASSUME NEW row \in Row, Refuse(row) \/ BeginEnqueue(row) PROVE OrderInv'
  BY <1>1, <1>2 DEF Refuse, BeginEnqueue, bufferVars, writerVars
<1>3. CASE EvictVictim
  <2>1. PICK t \in Tiers : tiers[t] # <<>> /\ PopFront(t)
    BY <1>3 DEF EvictVictim, VictimTiers
  <2>2. UNCHANGED <<handedOver, batch, retryQueue, enqueueCounter>>
    BY <1>3 DEF EvictVictim, writerVars
  <2>3. \A u \in Tiers : /\ Increasing(tiers'[u], Earlier)
                         /\ Range(tiers'[u]) \subseteq Range(tiers[u])
    BY <2>1, FrontLeaves
  <2>4. QED
    BY <2>2, <2>3, TiersShrink
<1>4. CASE GiveUp \/ EnqueueEdge \/ EndDrain \/ DrainEdges \/ EndRequeue \/ UNCHANGED vars
  BY <1>1, <1>4 DEF GiveUp, EnqueueEdge, EndDrain, DrainEdges, EndRequeue, vars,
     bufferVars, writerVars
<1>5. CASE Admit
  BY <1>5, AdmitRow
<1>6. ASSUME NEW max \in DrainMax, BeginDrain(max) PROVE OrderInv'
  BY <1>6, BeginDrainOrder
<1>7. CASE MergeOne
  BY <1>7, MergeOrder
<1>8. CASE HandOver
  BY <1>8, HandOverOrder
<1>9. CASE Requeue
  BY <1>9, RequeueOrder
<1>10. CASE ShedRetry
  BY <1>10, ShedOrder
<1>11. QED
  BY <1>2, <1>3, <1>4, <1>5, <1>6, <1>7, <1>8, <1>9, <1>10
  DEF Next, Enqueue, Writer

-----------------------------------------------------------------------------
(* Edges *)

(* An edge is the number of its enqueue_edge.                              *)
Linked == {p \in Edge \X Edge : p[1] < p[2]}

EdgeInv ==
  /\ Increasing(batchEdges, Linked) /\ Increasing(retryEdges, Linked)
  /\ Increasing(edgeQueue, Linked)
  /\ Range(batchEdges) \X (Range(retryEdges) \cup Range(edgeQueue)) \subseteq Linked
  /\ Range(retryEdges) \X Range(edgeQueue) \subseteq Linked
  /\ \A e \in Range(batchEdges) \cup Range(retryEdges) \cup Range(edgeQueue) :
       e <= edgesOffered

LEMMA EdgeTypes ==
  ASSUME TypeOK
  PROVE  /\ batchEdges \in Seq(Edge) /\ retryEdges \in Seq(Edge) /\ edgeQueue \in Seq(Edge)
         /\ Range(batchEdges) \subseteq Edge /\ Range(retryEdges) \subseteq Edge
         /\ Range(edgeQueue) \subseteq Edge
  BY RangeOfSeq DEF TypeOK

LEMMA NoEdges == Increasing(<<>>, Linked) /\ Range(<<>>) = {}
  BY IncreasingEmpty

LEMMA NextEdges == TypeOK /\ CountInv /\ EdgeInv /\ [Next]_vars => EdgeInv'
<1> SUFFICES ASSUME TypeOK, CountInv, EdgeInv, [Next]_vars PROVE EdgeInv'
  OBVIOUS
<1>1. ASSUME UNCHANGED edgeVars PROVE EdgeInv'
  BY <1>1 DEF EdgeInv, edgeVars
<1>2. CASE EnqueueEdge
  <2> DEFINE new == edgesOffered + 1
  <2>1. /\ edgeQueue' = Append(edgeQueue, new) /\ edgesOffered' = new
        /\ UNCHANGED <<batchEdges, retryEdges>> /\ edgesOffered < MaxEdges
    BY <1>2 DEF EnqueueEdge
  <2>2. new \in Edge /\ edgesOffered \in Nat /\ edgesOffered < new
    BY <2>1, BoundsAssumption DEF Edge, TypeOK
  <2> HIDE DEF new
  <2>3. ASSUME NEW e \in Range(batchEdges) \cup Range(retryEdges) \cup Range(edgeQueue)
        PROVE  <<e, new>> \in Linked /\ e <= new
    <3>1. e \in Edge /\ e <= edgesOffered
      BY EdgeTypes DEF EdgeInv
    <3>2. e < new /\ e <= new
      BY <2>2, <3>1 DEF Edge
    <3>3. QED
      BY <2>2, <3>1, <3>2 DEF Linked
  <2>4. Range(edgeQueue') = Range(edgeQueue) \cup {new}
    BY <2>1, <2>2, EdgeTypes, RangeAppend
  <2>5. Increasing(edgeQueue', Linked)
    BY <2>1, <2>2, <2>3, EdgeTypes, IncreasingAppend DEF EdgeInv
  <2>6. new <= new
    <3>1. new \in Int
      BY <2>2, BoundsAssumption DEF Edge
    <3>2. QED
      BY <3>1
  <2>7. /\ Range(batchEdges') \X (Range(retryEdges') \cup Range(edgeQueue')) \subseteq Linked
        /\ Range(retryEdges') \X Range(edgeQueue') \subseteq Linked
    BY <2>1, <2>3, <2>4 DEF EdgeInv
  <2>8. \A e \in Range(batchEdges') \cup Range(retryEdges') \cup Range(edgeQueue') :
          e <= edgesOffered'
    BY <2>1, <2>3, <2>4, <2>6
  <2>9. Increasing(batchEdges', Linked) /\ Increasing(retryEdges', Linked)
    BY <2>1 DEF EdgeInv
  <2>10. QED
    BY <2>5, <2>7, <2>8, <2>9 DEF EdgeInv
<1>3. CASE DrainEdges
  <2>1. /\ batchEdges' = retryEdges \o edgeQueue /\ retryEdges' = <<>> /\ edgeQueue' = <<>>
        /\ edgesOffered' = edgesOffered
    BY <1>3 DEF DrainEdges
  <2>2. Range(batchEdges') = Range(retryEdges) \cup Range(edgeQueue)
    BY <2>1, EdgeTypes, RangeConcatenation
  <2>3. Increasing(batchEdges', Linked)
    BY <2>1, EdgeTypes, IncreasingConcat DEF EdgeInv
  <2>4. QED
    BY <2>1, <2>2, <2>3, NoEdges DEF EdgeInv
<1>4. CASE HandOver
  <2>1. batchEdges' = <<>> /\ UNCHANGED <<retryEdges, edgeQueue, edgesOffered>>
    BY <1>4 DEF HandOver
  <2>2. QED
    BY <2>1, NoEdges DEF EdgeInv
<1>5. CASE Requeue
  <2>1. /\ retryEdges' = batchEdges \o retryEdges /\ batchEdges' = <<>>
        /\ UNCHANGED <<edgeQueue, edgesOffered>>
    BY <1>5 DEF Requeue
  <2>2. Range(retryEdges') = Range(batchEdges) \cup Range(retryEdges)
    BY <2>1, EdgeTypes, RangeConcatenation
  <2>3. Increasing(retryEdges', Linked)
    <3>1. Range(batchEdges) \X Range(retryEdges) \subseteq Linked
      BY DEF EdgeInv
    <3>2. QED
      BY <2>1, <3>1, EdgeTypes, IncreasingConcat DEF EdgeInv
  <2>4. QED
    BY <2>1, <2>2, <2>3, NoEdges DEF EdgeInv
<1>6. CASE EndRequeue
  <2> DEFINE k == Least(config.maxItems, Len(retryEdges))
  <2>1. /\ retryEdges' = Taken(retryEdges, k)
        /\ UNCHANGED <<batchEdges, edgeQueue, edgesOffered>>
    BY <1>6 DEF EndRequeue, Taken
  <2>2. k \in 0 .. Len(retryEdges)
    BY LensAreNat, EdgeTypes, LenProperties DEF Least
  <2> HIDE DEF k
  <2>3. Increasing(retryEdges', Linked) /\ Range(retryEdges') \subseteq Range(retryEdges)
    BY <2>1, <2>2, EdgeTypes, IncreasingSplit, SplitRange DEF EdgeInv
  <2>4. QED
    BY <2>1, <2>3 DEF EdgeInv
<1>7. ASSUME NEW row \in Row, Refuse(row) \/ BeginEnqueue(row) PROVE EdgeInv'
  BY <1>1, <1>7 DEF Refuse, BeginEnqueue
<1>8. CASE EvictVictim \/ GiveUp \/ Admit \/ UNCHANGED vars
  BY <1>1, <1>8 DEF EvictVictim, GiveUp, Admit, vars
<1>9. ASSUME NEW max \in DrainMax, BeginDrain(max) PROVE EdgeInv'
  BY <1>1, <1>9 DEF BeginDrain
<1>10. CASE MergeOne \/ EndDrain \/ ShedRetry
  BY <1>1, <1>10 DEF MergeOne, EndDrain, ShedRetry
<1>11. QED
  BY <1>2, <1>3, <1>4, <1>5, <1>6, <1>7, <1>8, <1>9, <1>10
  DEF Next, Enqueue, Writer

FlowInv == TypeOK /\ CountInv /\ OrderInv /\ EdgeInv

LEMMA FlowInvariant == Spec => []FlowInv
<1>1. Init => FlowInv
  <2>1. Init => EdgeInv
    BY NoEdges DEF Init, EdgeInv
  <2>2. QED
    BY <2>1, InitType, InitCount, InitOrder DEF FlowInv
<1>2. FlowInv /\ [Next]_vars => FlowInv'
  BY NextType, NextCount, NextOrder, NextEdges DEF FlowInv
<1>3. QED
  BY <1>1, <1>2, PTL DEF Spec

(* Rows leave in the order in which they were enqueued, whatever was       *)
(* evicted, shed or requeued; edges wait in the order in which they were   *)
(* linked and none of them twice.                                          *)
THEOREM LeavesInOrder == Spec => []InsertionOrder
<1>1. FlowInv => InsertionOrder
  <2> SUFFICES ASSUME FlowInv PROVE InsertionOrder
    OBVIOUS
  <2>1. TypeOK /\ OrderInv /\ EdgeInv
    BY DEF FlowInv
  <2>2. Increasing(Outbound, Earlier) /\ Outbound \in Seq(Stamped)
        /\ Range(Outbound) = Gone \cup Taking \cup Retries
    <3>1. /\ handedOver \in Seq(Stamped) /\ batch \in Seq(Stamped)
          /\ retryQueue \in Seq(Stamped)
      BY <2>1 DEF TypeOK
    <3>2. /\ Increasing(handedOver, Earlier) /\ Increasing(batch, Earlier)
          /\ Increasing(retryQueue, Earlier)
          /\ Range(handedOver) \X (Range(batch) \cup Range(retryQueue)) \subseteq Earlier
          /\ Range(batch) \X Range(retryQueue) \subseteq Earlier
      BY <2>1 DEF OrderInv, Gone, Taking, Retries
    <3>3. QED
      BY <3>1, <3>2, ThreeInRow DEF Outbound, Gone, Taking, Retries
  <2>3. Increasing(OutboundEdges, Linked)
    BY <2>1, EdgeTypes, ThreeInRow DEF EdgeInv, OutboundEdges
  <2>4. \A i, j \in 1 .. Len(Outbound) : i < j => Outbound[i].stamp < Outbound[j].stamp
    BY <2>2, EarlierFacts DEF Increasing
  <2>5. ASSUME NEW i \in 1 .. Len(Outbound), NEW t \in Tiers,
               NEW j \in 1 .. Len(tiers[t])
        PROVE  Outbound[i].stamp < tiers[t][j].stamp
    <3>1. Outbound[i] \in Gone \cup Taking \cup Retries
      BY <2>2, RangeEquality
    <3>2. tiers[t][j] \in Live
      <4>1. tiers[t] \in Seq(Stamped)
        BY <2>1 DEF TypeOK
      <4>2. tiers[t][j] \in Range(tiers[t])
        BY <4>1, RangeEquality
      <4>3. QED
        BY <4>2 DEF Live
    <3>3. <<Outbound[i], tiers[t][j]>> \in Earlier
      BY <2>1, <3>1, <3>2 DEF OrderInv
    <3>4. QED
      BY <3>3, EarlierFacts
  <2>6. \A i, j \in 1 .. Len(OutboundEdges) : i < j => OutboundEdges[i] < OutboundEdges[j]
    BY <2>3 DEF Increasing, Linked
  <2>7. QED
    BY <2>4, <2>5, <2>6 DEF InsertionOrder
<1>2. QED
  BY <1>1, FlowInvariant, PTL


-----------------------------------------------------------------------------
(* The refinement: WriteBuffer implements LossyQueue *)

LEMMA QueueStutters ==
  ASSUME UNCHANGED <<enqueueCounter, Pending, Gone, DropCount>>
  PROVE  UNCHANGED Queue!qvars
  BY DEF Queue!qvars, Pending, Gone, Taking, Retries

LEMMA QueueRefuses ==
  ASSUME UNCHANGED <<enqueueCounter, Pending, Gone>>, DropCount' = DropCount + 1
  PROVE  Queue!Next
  BY DEF Queue!Next, Queue!Refuse, Pending, Gone, Taking, Retries

LEMMA QueueSheds ==
  ASSUME UNCHANGED <<enqueueCounter, Gone>>, DropCount' = DropCount + 1,
         NEW e \in Pending, Pending' = Pending \ {e}
  PROVE  Queue!Next
  BY DEF Queue!Next, Queue!Shed, Pending, Gone, Taking, Retries

LEMMA QueueAccepts ==
  ASSUME NEW row \in Row, enqueueCounter' = enqueueCounter + 1,
         UNCHANGED <<Gone, DropCount>>,
         Pending' = Pending \cup {[stamp |-> enqueueCounter, row |-> row]}
  PROVE  Queue!Next
  BY DEF Queue!Next, Queue!Accept, Pending, Gone, Taking, Retries

LEMMA QueueDelivers ==
  ASSUME UNCHANGED <<enqueueCounter, DropCount>>, Taking # {},
         \A e \in Taking, f \in Pending \ Taking : e.stamp < f.stamp,
         Pending' = Pending \ Taking, Gone' = Gone \cup Taking
  PROVE  Queue!Next
<1>1. Taking \in SUBSET Pending
  BY DEF Pending
<1>2. Queue!Deliver(Taking)
  BY DEF Queue!Deliver, Pending, Gone, Taking, Retries
<1>3. QED
  BY <1>1, <1>2 DEF Queue!Next, Pending, Taking, Retries

(* Every step of the buffer is a step of the queue or changes nothing that *)
(* the queue is made of.                                                   *)
LEMMA StepRefines ==
  ASSUME FlowInv, [Next]_vars
  PROVE  [Queue!Next]_(Queue!qvars)
<1>i. TypeOK /\ CountInv /\ OrderInv
  BY DEF FlowInv
<1>1. ASSUME UNCHANGED <<bufferVars, batch, retryQueue, handedOver>>
      PROVE  UNCHANGED <<enqueueCounter, Pending, Gone>>
  BY <1>1 DEF bufferVars, Pending, Live, Taking, Retries, Gone
<1>2. ASSUME UNCHANGED <<bufferVars, batch, retryQueue, handedOver, dropped>>
      PROVE  UNCHANGED Queue!qvars
  <2>1. UNCHANGED <<enqueueCounter, Pending, Gone>>
    BY <1>1, <1>2
  <2>2. DropCount' = DropCount
    BY <1>2 DEF DropCount
  <2>3. QED
    BY <2>1, <2>2, QueueStutters
<1>3. ASSUME NEW row \in Row, Refuse(row) PROVE Queue!Next
  <2>1. DropCount' = DropCount + 1
    BY <1>i, <1>3, CountDropCount, TierOfRow DEF Refuse
  <2>2. UNCHANGED <<enqueueCounter, Pending, Gone>>
    BY <1>1, <1>3 DEF Refuse, writerVars
  <2>3. QED
    BY <2>1, <2>2, QueueRefuses
<1>4. CASE GiveUp
  <2>1. DropCount' = DropCount + 1
    BY <1>i, <1>4, CountDropCount, TierOfRow DEF GiveUp
  <2>2. UNCHANGED <<enqueueCounter, Pending, Gone>>
    BY <1>1, <1>4 DEF GiveUp, writerVars
  <2>3. QED
    BY <2>1, <2>2, QueueRefuses
<1>5. CASE EvictVictim
  <2>1. PICK t \in Tiers : tiers[t] # <<>> /\ PopFront(t) /\ CountDrop(t)
    BY <1>5 DEF EvictVictim, VictimTiers
  <2> DEFINE e == Head(tiers[t])
  <2>2. e \in Live /\ Live' = Live \ {e}
    BY <1>i, <2>1, FrontLeaves
  <2> HIDE DEF e
  <2>3. UNCHANGED <<enqueueCounter, batch, retryQueue, handedOver>>
    BY <1>5 DEF EvictVictim, writerVars
  <2>4. Taking' = Taking /\ Retries' = Retries /\ Gone' = Gone
    BY <2>3 DEF Taking, Retries, Gone
  <2>5. e \notin Taking /\ e \notin Retries
    BY <1>i, <2>2, EarlierFacts DEF OrderInv
  <2>6. e \in Pending /\ Pending' = Pending \ {e}
    BY <2>2, <2>4, <2>5 DEF Pending
  <2>7. DropCount' = DropCount + 1
    BY <1>i, <2>1, CountDropCount
  <2>8. QED
    BY <2>3, <2>4, <2>6, <2>7, QueueSheds
<1>6. CASE Admit
  <2>1. /\ op.row \in Row
        /\ Live' = Live \cup {[stamp |-> enqueueCounter, row |-> op.row]}
    BY <1>i, <1>6, AdmitRow
  <2>2. /\ enqueueCounter' = enqueueCounter + 1
        /\ UNCHANGED <<dropped, batch, retryQueue, handedOver>>
    BY <1>6 DEF Admit, writerVars
  <2>3. Taking' = Taking /\ Retries' = Retries /\ Gone' = Gone /\ DropCount' = DropCount
    BY <2>2 DEF Taking, Retries, Gone, DropCount
  <2>4. Pending' = Pending \cup {[stamp |-> enqueueCounter, row |-> op.row]}
    BY <2>1, <2>3 DEF Pending
  <2>5. QED
    BY <2>1, <2>2, <2>3, <2>4, QueueAccepts
<1>7. ASSUME NEW max \in DrainMax, BeginDrain(max) PROVE UNCHANGED Queue!qvars
  <2>1. Pending' = Pending
    BY <1>i, <1>7, BeginDrainOrder
  <2>2. UNCHANGED <<enqueueCounter, Gone, DropCount>>
    BY <1>7 DEF BeginDrain, bufferVars, Gone, DropCount
  <2>3. QED
    BY <2>1, <2>2, QueueStutters
<1>8. CASE MergeOne
  <2>1. Pending' = Pending
    BY <1>i, <1>8, MergeOrder
  <2>2. UNCHANGED <<enqueueCounter, Gone, DropCount>>
    BY <1>8 DEF MergeOne, Gone, DropCount
  <2>3. QED
    BY <2>1, <2>2, QueueStutters
<1>9. CASE HandOver
  <2>1. /\ Gone' = Gone \cup Taking /\ Pending' = Pending \ Taking
        /\ \A e \in Taking, f \in Pending \ Taking : e.stamp < f.stamp
    BY <1>i, <1>9, HandOverOrder
  <2>2. UNCHANGED <<enqueueCounter, DropCount>>
    BY <1>9 DEF HandOver, bufferVars, DropCount
  <2>3. CASE Taking = {}
    <3>1. Gone' = Gone /\ Pending' = Pending
      BY <2>1, <2>3
    <3>2. UNCHANGED Queue!qvars
      BY <2>2, <3>1, QueueStutters
    <3>3. QED
      BY <3>2
  <2>4. CASE Taking # {}
    BY <2>1, <2>2, <2>4, QueueDelivers
  <2>5. QED
    BY <2>3, <2>4
<1>10. CASE Requeue
  <2>1. Pending' = Pending
    BY <1>i, <1>10, RequeueOrder
  <2>2. UNCHANGED <<enqueueCounter, Gone, DropCount>>
    BY <1>10 DEF Requeue, bufferVars, Gone, DropCount
  <2>3. QED
    BY <2>1, <2>2, QueueStutters
<1>11. CASE ShedRetry
  <2>1. \E e \in Pending : Pending' = Pending \ {e}
    BY <1>i, <1>11, ShedOrder
  <2>2. DropCount' = DropCount + 1
    BY <1>i, <1>11, CountDropCount, TierOfRow DEF ShedRetry
  <2>3. UNCHANGED <<enqueueCounter, Gone>>
    BY <1>11 DEF ShedRetry, bufferVars, writerVars, Gone
  <2>4. QED
    BY <2>1, <2>2, <2>3, QueueSheds
<1>12. ASSUME NEW row \in Row, BeginEnqueue(row) PROVE UNCHANGED Queue!qvars
  BY <1>2, <1>12 DEF BeginEnqueue, writerVars
<1>13. CASE EnqueueEdge \/ EndDrain \/ DrainEdges \/ EndRequeue \/ UNCHANGED vars
  BY <1>2, <1>13 DEF EnqueueEdge, EndDrain, DrainEdges, EndRequeue, vars, writerVars
<1>14. QED
  BY <1>3, <1>4, <1>5, <1>6, <1>7, <1>8, <1>9, <1>10, <1>11, <1>12, <1>13
  DEF Next, Enqueue, Writer

LEMMA InitRefines == Init => Queue!Init
<1> SUFFICES ASSUME Init PROVE Queue!Init
  OBVIOUS
<1>1. /\ handedOver = <<>> /\ batch = <<>> /\ retryQueue = <<>> /\ enqueueCounter = 0
      /\ \A t \in Tiers : tiers[t] = <<>> /\ dropped[t] = 0
  BY DEF Init
<1>2. DropCount = 0
  BY <1>1, TierNames DEF DropCount
<1>3. QED
  BY <1>1, <1>2, EmptyRow DEF Queue!Init, Live

(* The buffer is a lossy queue to the writer behind it: what enqueue let   *)
(* in is handed over in that order and once, or its loss was counted.      *)
THEOREM RefinesQueue == Spec => ImplementsQueue
<1>1. FlowInv /\ [Next]_vars => [Queue!Next]_(Queue!qvars)
  BY StepRefines
<1>2. QED
  BY <1>1, InitRefines, FlowInvariant, PTL DEF Spec, ImplementsQueue, Queue!Spec


-----------------------------------------------------------------------------
(* What congestion takes first *)

LEMMA DroppedAlone ==
  ASSUME TypeOK, NEW v \in Tiers, CountDrop(v), NEW t \in Tiers, dropped'[t] > dropped[t]
  PROVE  t = v
<1>1. t # v => dropped'[t] = dropped[t]
  BY DEF CountDrop, TypeOK
<1>2. dropped[t] \in Nat
  BY DEF TypeOK
<1>3. QED
  BY <1>1, <1>2

(* An arrival that is not let in finds no row that is cheaper than the one *)
(* lost for it; structural and critical rows give way to critical ones.    *)
LEMMA CheapestStep ==
  ASSUME TypeOK, [Next]_vars, op.call = "enqueue", dropped' # dropped,
         NEW t \in Tiers, dropped'[t] > dropped[t], config.eviction = "dropOldest"
  PROVE  /\ \A u \in Tiers : u < t => tiers[u] = <<>>
         /\ tiers'[t] # tiers[t] /\ t > DIAGNOSTIC => Tier(op.row) = CRITICAL
<1>1. EvictVictim \/ GiveUp
  <2>1. op # Idle /\ op.call # "drain" /\ op.call # "requeue"
    BY DEF Idle
  <2>2. ~Admit /\ ~HandOver /\ ~UNCHANGED vars
    BY DEF Admit, HandOver, vars
  <2>3. QED
    BY <2>1, <2>2 DEF Next, Enqueue, Writer, Refuse, BeginEnqueue, EnqueueEdge,
       BeginDrain, MergeOne, EndDrain, DrainEdges, Requeue, ShedRetry, EndRequeue
<1>2. \A u \in Tiers : u \in Int /\ (u <= DIAGNOSTIC \/ u = STRUCTURAL \/ u = CRITICAL)
  BY DEF Tiers, TELEMETRY, DIAGNOSTIC, STRUCTURAL, CRITICAL
<1>3. CASE EvictVictim
  <2>1. PICK v \in VictimTiers(op.row) :
          /\ \A u \in VictimTiers(op.row) : v <= u
          /\ CountDrop(v)
    BY <1>3 DEF EvictVictim
  <2>2. v \in Tiers /\ (v <= DIAGNOSTIC \/ Tier(op.row) = CRITICAL)
    BY <2>1 DEF VictimTiers
  <2>3. t = v
    BY <2>1, <2>2, DroppedAlone
  <2>4. \A u \in Tiers : u < t => u \notin VictimTiers(op.row)
    BY <1>2, <2>1, <2>3
  <2>5. \A u \in Tiers : u < t => (u <= DIAGNOSTIC \/ Tier(op.row) = CRITICAL)
    BY <1>2, <2>2, <2>3 DEF DIAGNOSTIC, STRUCTURAL, CRITICAL
  <2>6. \A u \in Tiers : u < t => tiers[u] = <<>>
    BY <2>4, <2>5 DEF VictimTiers
  <2>7. t > DIAGNOSTIC => Tier(op.row) = CRITICAL
    BY <1>2, <2>2, <2>3 DEF DIAGNOSTIC
  <2>8. QED
    BY <2>6, <2>7
<1>4. CASE GiveUp
  <2>1. CountDrop(Tier(op.row)) /\ tiers' = tiers /\ VictimTiers(op.row) = {}
    BY <1>4 DEF GiveUp, bufferVars
  <2>2. t = Tier(op.row)
    BY <2>1, TierOfRow, DroppedAlone
  <2>3. \A u \in Tiers : u < t => (u <= DIAGNOSTIC \/ Tier(op.row) = CRITICAL)
    BY <1>2, <2>2 DEF DIAGNOSTIC, STRUCTURAL, CRITICAL
  <2>4. \A u \in Tiers : u < t => tiers[u] = <<>>
    BY <2>1, <2>3 DEF VictimTiers
  <2>5. QED
    BY <2>1, <2>4
<1>5. QED
  BY <1>1, <1>3, <1>4

(* Congestion takes the cheapest row there is, and a queued structural or  *)
(* critical row only for an arrival that is critical itself.               *)
THEOREM TakesCheapest == Spec => CheapestFirst
<1> DEFINE Cheapest ==
      op.call = "enqueue" /\ dropped' # dropped =>
        \A t \in Tiers : dropped'[t] > dropped[t] /\ config.eviction = "dropOldest" =>
          /\ \A u \in Tiers : u < t => tiers[u] = <<>>
          /\ tiers'[t] # tiers[t] /\ t > DIAGNOSTIC => Tier(op.row) = CRITICAL
<1>1. TypeOK /\ [Next]_vars => [Cheapest]_vars
  BY CheapestStep
<1>2. QED
  BY <1>1, TypeCorrect, PTL DEF Spec, CheapestFirst

-----------------------------------------------------------------------------
(* The counters: what congestion control reads is what the tiers hold.     *)
(* The total size is a sum over a set, which the community modules define  *)
(* by choosing one element after the other; the first part shows that the  *)
(* sum does not depend on the choice.                                      *)

Bytes(S) == MapThenSumSet(LAMBDA e : e.row.bytes, S)

(* One step of the fold: a chosen row, and the sum of the others.          *)
Weigh(sum, s) ==
  IF s = {} THEN 0
  ELSE LET x == CHOOSE y \in s : TRUE IN x.row.bytes + sum[s \ {x}]

Sums(S) == {sum \in [SUBSET S -> Int] : \A s \in SUBSET S : sum[s] = Weigh(sum, s)}

LEMMA WeighSome ==
  ASSUME NEW s, s # {}, NEW sum
  PROVE  \E x \in s : Weigh(sum, s) = x.row.bytes + sum[s \ {x}]
  BY DEF Weigh

LEMMA BytesOfRow == \A e \in Stamped : e.row.bytes \in Nat
  BY RowAssumption DEF Stamped

LEMMA SumExists ==
  ASSUME NEW S \in SUBSET Stamped, IsFiniteSet(S)
  PROVE  Sums(S) # {}
<1> DEFINE Upto(n) == {s \in SUBSET S : Cardinality(s) <= n}
           Good(n) == \E sum \in [SUBSET S -> Int] : \A s \in Upto(n) : sum[s] = Weigh(sum, s)
           T == {n \in Nat : Good(n)}
<1>1. \A s \in SUBSET S : IsFiniteSet(s) /\ Cardinality(s) \in Nat /\ Cardinality(s) <= Cardinality(S)
  BY FS_Subset, FS_CardinalityType
<1>2. 0 \in T
  <2> DEFINE zero == [s \in SUBSET S |-> 0]
  <2>1. zero \in [SUBSET S -> Int]
    OBVIOUS
  <2>2. \A s \in Upto(0) : s = {}
    BY <1>1, FS_EmptySet
  <2>3. \A s \in Upto(0) : zero[s] = Weigh(zero, s)
    BY <2>2 DEF Weigh
  <2>4. QED
    BY <2>1, <2>3
<1>3. ASSUME NEW n \in T PROVE n + 1 \in T
  <2>1. PICK sum \in [SUBSET S -> Int] : \A s \in Upto(n) : sum[s] = Weigh(sum, s)
    OBVIOUS
  <2> DEFINE new == [s \in SUBSET S |-> IF Cardinality(s) <= n THEN sum[s] ELSE Weigh(sum, s)]
  <2>2. \A s \in SUBSET S : Weigh(sum, s) \in Int
    <3>1. Weigh(sum, {}) = 0
      BY DEF Weigh
    <3>2. ASSUME NEW s \in SUBSET S, s # {} PROVE Weigh(sum, s) \in Int
      <4>1. PICK x \in s : Weigh(sum, s) = x.row.bytes + sum[s \ {x}]
        BY <3>2, WeighSome
      <4>2. x.row.bytes \in Nat /\ sum[s \ {x}] \in Int
        BY BytesOfRow
      <4>3. QED
        BY <4>1, <4>2
    <3>3. QED
      BY <3>1, <3>2
  <2>3. new \in [SUBSET S -> Int]
    BY <2>2
  <2>4. ASSUME NEW s \in Upto(n + 1) PROVE new[s] = Weigh(new, s)
    <3>1. CASE s = {}
      <4>1. {} \in Upto(n)
        BY FS_EmptySet
      <4>2. QED
        BY <2>1, <3>1, <4>1 DEF Weigh
    <3>2. CASE s # {}
      <4> DEFINE x == CHOOSE y \in s : TRUE
                 rest == s \ {x}
      <4>1. x \in s
        BY <3>2
      <4>2. rest \in SUBSET S /\ Cardinality(rest) = Cardinality(s) - 1
        BY <1>1, <4>1, FS_RemoveElement
      <4>3. Cardinality(rest) <= n
        BY <1>1, <4>2
      <4>4. new[rest] = sum[rest]
        BY <4>2, <4>3
      <4>5. Weigh(new, s) = Weigh(sum, s)
        BY <3>2, <4>4 DEF Weigh
      <4> HIDE DEF x, rest
      <4>6. CASE Cardinality(s) <= n
        BY <2>1, <4>5, <4>6
      <4>7. CASE ~(Cardinality(s) <= n)
        BY <4>5, <4>7
      <4>8. QED
        BY <4>6, <4>7
    <3>3. QED
      BY <3>1, <3>2
  <2> HIDE DEF new
  <2>5. QED
    BY <2>3, <2>4
<1>4. T = Nat
  <2> HIDE DEF T
  <2>1. T \in SUBSET Nat
    BY DEF T
  <2>2. QED
    BY <1>2, <1>3, <2>1, SetInduction
<1>5. Good(Cardinality(S))
  BY <1>4, FS_CardinalityType
<1>6. QED
  BY <1>1, <1>5 DEF Sums

(* Two sums agree on the sets that both are defined on.                    *)
LEMMA SumsAgree ==
  ASSUME NEW S, IsFiniteSet(S), NEW T \in SUBSET S, NEW f, NEW g,
         \A s \in SUBSET S : f[s] = Weigh(f, s),
         \A s \in SUBSET T : g[s] = Weigh(g, s)
  PROVE  \A s \in SUBSET T : f[s] = g[s]
<1> DEFINE Same(n) == \A s \in SUBSET T : Cardinality(s) = n => f[s] = g[s]
           U == {n \in Nat : Same(n)}
<1>1. \A s \in SUBSET T : IsFiniteSet(s) /\ Cardinality(s) \in Nat
  BY FS_Subset, FS_CardinalityType
<1>2. 0 \in U
  <2>1. \A s \in SUBSET T : Cardinality(s) = 0 => s = {}
    BY <1>1, FS_EmptySet
  <2>2. f[{}] = 0 /\ g[{}] = 0
    BY DEF Weigh
  <2>3. QED
    BY <2>1, <2>2
<1>3. ASSUME NEW n \in U PROVE n + 1 \in U
  <2> SUFFICES ASSUME NEW s \in SUBSET T, Cardinality(s) = n + 1 PROVE f[s] = g[s]
    OBVIOUS
  <2> DEFINE x == CHOOSE y \in s : TRUE
             rest == s \ {x}
  <2>1. s # {}
    <3>1. n \in Nat /\ n + 1 # 0 /\ Cardinality({}) = 0
      BY FS_EmptySet
    <3>2. QED
      BY <3>1
  <2>2. x \in s
    BY <2>1
  <2>3. rest \in SUBSET T /\ Cardinality(rest) = Cardinality(s) - 1
    BY <1>1, <2>2, FS_RemoveElement
  <2>4. Cardinality(rest) = n
    BY <2>3
  <2>5. f[rest] = g[rest]
    BY <2>3, <2>4
  <2>6. f[s] = x.row.bytes + f[rest] /\ g[s] = x.row.bytes + g[rest]
    BY <2>1 DEF Weigh
  <2>7. QED
    BY <2>5, <2>6
<1>4. U = Nat
  <2> HIDE DEF U
  <2>1. U \in SUBSET Nat
    BY DEF U
  <2>2. QED
    BY <1>2, <1>3, <2>1, SetInduction
<1>5. QED
  BY <1>1, <1>4

(* The fold of the community modules is such a sum.                        *)
LEMMA BytesIsSum ==
  ASSUME NEW S \in SUBSET Stamped, IsFiniteSet(S)
  PROVE  \E sum \in Sums(S) : Bytes(S) = sum[S]
<1> DEFINE Solves(k) ==
             k = [s \in SUBSET S |->
                    IF s = {} THEN 0
                    ELSE LET x == CHOOSE y \in s : TRUE IN x.row.bytes + k[s \ {x}]]
           chosen == CHOOSE k : Solves(k)
<1>1. Bytes(S) = chosen[S]
  BY DEF Bytes, MapThenSumSet, MapThenFoldSet
<1>2. PICK sum \in Sums(S) : TRUE
  BY SumExists
<1>3. Solves(sum)
  BY <1>2 DEF Sums, Weigh
<1>4. Solves(chosen)
  BY <1>3
<1>5. /\ \A s \in SUBSET S : chosen[s] = Weigh(chosen, s)
      /\ \A s \in SUBSET S : sum[s] = Weigh(sum, s)
  BY <1>2, <1>4, ZenonT(60) DEF Weigh, Sums
<1> HIDE DEF Solves, chosen
<1>6. \A s \in SUBSET S : chosen[s] = sum[s]
  <2>1. S \in SUBSET S
    OBVIOUS
  <2>2. QED
    BY <1>5, <2>1, SumsAgree
<1>7. QED
  BY <1>1, <1>2, <1>6

(* Any row of the set may be taken out of a sum first.                     *)
LEMMA SumAny ==
  ASSUME NEW S \in SUBSET Stamped, IsFiniteSet(S), NEW sum \in Sums(S)
  PROVE  \A s \in SUBSET S : \A x \in s : sum[s] = x.row.bytes + sum[s \ {x}]
<1> DEFINE AnyFirst(n) == \A s \in SUBSET S : Cardinality(s) = n =>
                            \A x \in s : sum[s] = x.row.bytes + sum[s \ {x}]
           U == {n \in Nat : AnyFirst(n)}
<1>1. \A s \in SUBSET S : IsFiniteSet(s) /\ Cardinality(s) \in Nat
  BY FS_Subset, FS_CardinalityType
<1>s. /\ \A s \in SUBSET S : sum[s] = Weigh(sum, s)
      /\ \A s \in SUBSET S : sum[s] \in Int
  BY DEF Sums
<1>2. 0 \in U
  <2>1. \A s \in SUBSET S : Cardinality(s) = 0 => s = {}
    BY <1>1, FS_EmptySet
  <2>2. QED
    BY <2>1
<1>3. ASSUME NEW n \in U PROVE n + 1 \in U
  <2> SUFFICES ASSUME NEW s \in SUBSET S, Cardinality(s) = n + 1, NEW x \in s
               PROVE  sum[s] = x.row.bytes + sum[s \ {x}]
    OBVIOUS
  <2>1. PICK y \in s : Weigh(sum, s) = y.row.bytes + sum[s \ {y}]
    BY WeighSome, SMTT(30), ZenonT(30)
  <2>2. sum[s] = y.row.bytes + sum[s \ {y}]
    BY <1>s, <2>1
  <2>3. CASE x = y
    BY <2>2, <2>3
  <2>4. CASE x # y
    <3> DEFINE both == s \ {x, y}
               a == x.row.bytes
               b == y.row.bytes
    <3>1. /\ s \ {x} \in SUBSET S /\ s \ {y} \in SUBSET S /\ both \in SUBSET S
          /\ y \in s \ {x} /\ x \in s \ {y}
          /\ (s \ {x}) \ {y} = both /\ (s \ {y}) \ {x} = both
      BY <2>4
    <3>2. Cardinality(s \ {x}) = n /\ Cardinality(s \ {y}) = n
      <4>1. Cardinality(s \ {x}) = Cardinality(s) - 1 /\ Cardinality(s \ {y}) = Cardinality(s) - 1
        BY <1>1, FS_RemoveElement
      <4>2. QED
        BY <4>1
    <3>3. AnyFirst(n)
      OBVIOUS
    <3>4. sum[s \ {x}] = b + sum[both]
      BY <3>1, <3>2, <3>3
    <3>5. sum[s \ {y}] = a + sum[both]
      BY <3>1, <3>2, <3>3
    <3>6. a \in Nat /\ b \in Nat /\ sum[both] \in Int
      BY <1>s, <3>1, BytesOfRow
    <3>7. sum[s] = b + sum[s \ {y}]
      BY <2>2
    <3> HIDE DEF a, b, both
    <3>8. sum[s] = a + sum[s \ {x}]
      BY <3>4, <3>5, <3>6, <3>7
    <3>9. QED
      BY <3>8 DEF a
  <2>5. QED
    BY <2>3, <2>4
<1>4. U = Nat
  <2> HIDE DEF U
  <2>1. U \in SUBSET Nat
    BY DEF U
  <2>2. QED
    BY <1>2, <1>3, <2>1, SetInduction
<1>5. QED
  BY <1>1, <1>4

(* The size of a set of rows: nothing for no row, and each row adds its    *)
(* own size once.                                                          *)
LEMMA BytesEmpty == Bytes({}) = 0
<1>1. PICK sum \in Sums({}) : Bytes({}) = sum[{}]
  BY BytesIsSum, FS_EmptySet
<1>2. QED
  BY <1>1 DEF Sums, Weigh

LEMMA BytesRemove ==
  ASSUME NEW S \in SUBSET Stamped, IsFiniteSet(S), NEW e \in S
  PROVE  Bytes(S) \in Int /\ Bytes(S) = e.row.bytes + Bytes(S \ {e})
<1>1. PICK sum \in Sums(S) : Bytes(S) = sum[S]
  BY BytesIsSum
<1>2. S \ {e} \in SUBSET Stamped /\ IsFiniteSet(S \ {e})
  BY FS_RemoveElement
<1>3. PICK rest \in Sums(S \ {e}) : Bytes(S \ {e}) = rest[S \ {e}]
  BY <1>2, BytesIsSum
<1>4. /\ \A s \in SUBSET S : sum[s] = Weigh(sum, s)
      /\ \A s \in SUBSET (S \ {e}) : rest[s] = Weigh(rest, s)
      /\ sum[S] \in Int
  BY <1>1, <1>3 DEF Sums
<1>5. sum[S \ {e}] = rest[S \ {e}]
  <2>1. S \ {e} \in SUBSET S /\ S \ {e} \in SUBSET (S \ {e})
    OBVIOUS
  <2>2. \A s \in SUBSET (S \ {e}) : sum[s] = rest[s]
    BY <1>4, <2>1, SumsAgree
  <2>3. QED
    BY <2>1, <2>2
<1>6. sum[S] = e.row.bytes + sum[S \ {e}]
  BY SumAny
<1>7. QED
  BY <1>1, <1>3, <1>4, <1>5, <1>6

LEMMA BytesAdd ==
  ASSUME NEW S \in SUBSET Stamped, IsFiniteSet(S), NEW e \in Stamped, e \notin S
  PROVE  Bytes(S \cup {e}) = e.row.bytes + Bytes(S)
<1>1. S \cup {e} \in SUBSET Stamped /\ IsFiniteSet(S \cup {e}) /\ e \in S \cup {e}
  BY FS_AddElement
<1>2. (S \cup {e}) \ {e} = S
  OBVIOUS
<1>3. QED
  BY <1>1, <1>2, BytesRemove


-----------------------------------------------------------------------------
(* The counters *)

RowsOf(S, r) == {e \in S : e.row.run = r}

SizeInv ==
  /\ IsFiniteSet(Live)
  /\ totalBytes = Bytes(Live)
  /\ \A r \in Run : depthByRun[r] = Cardinality(RowsOf(Live, r))

(* The depth of a run moves with its own rows only.                        *)
LEMMA RowsOfMove ==
  ASSUME NEW S, IsFiniteSet(S), NEW e, NEW r
  PROVE  /\ IsFiniteSet(RowsOf(S, r)) /\ Cardinality(RowsOf(S, r)) \in Nat
         /\ e.row.run # r => RowsOf(S \ {e}, r) = RowsOf(S, r) /\ RowsOf(S \cup {e}, r) = RowsOf(S, r)
         /\ e.row.run = r /\ e \in S =>
              /\ Cardinality(RowsOf(S, r)) # 0
              /\ Cardinality(RowsOf(S \ {e}, r)) = Cardinality(RowsOf(S, r)) - 1
         /\ e.row.run = r /\ e \notin S =>
              Cardinality(RowsOf(S \cup {e}, r)) = Cardinality(RowsOf(S, r)) + 1
<1> DEFINE R == RowsOf(S, r)
<1>1. R \in SUBSET S /\ IsFiniteSet(R) /\ Cardinality(R) \in Nat
  BY FS_Subset, FS_CardinalityType DEF RowsOf
<1>2. e.row.run # r => RowsOf(S \ {e}, r) = R /\ RowsOf(S \cup {e}, r) = R
  BY DEF RowsOf
<1>3. ASSUME e.row.run = r, e \in S
      PROVE  Cardinality(R) # 0 /\ Cardinality(RowsOf(S \ {e}, r)) = Cardinality(R) - 1
  <2>1. e \in R /\ RowsOf(S \ {e}, r) = R \ {e}
    BY <1>3 DEF RowsOf
  <2> HIDE DEF R
  <2>2. R # {}
    BY <2>1
  <2>3. QED
    BY <1>1, <2>1, <2>2, FS_RemoveElement, FS_EmptySet
<1>4. ASSUME e.row.run = r, e \notin S
      PROVE  Cardinality(RowsOf(S \cup {e}, r)) = Cardinality(R) + 1
  <2>1. e \notin R /\ RowsOf(S \cup {e}, r) = R \cup {e}
    BY <1>4 DEF RowsOf
  <2> HIDE DEF R
  <2>2. QED
    BY <1>1, <2>1, FS_AddElement
<1>5. QED
  BY <1>1, <1>2, <1>3, <1>4

LEMMA PopFrontSize ==
  ASSUME TypeOK, OrderInv, SizeInv, NEW t \in Tiers, tiers[t] # <<>>, PopFront(t)
  PROVE  SizeInv'
<1> DEFINE e == Head(tiers[t])
<1>1. e \in Live /\ e \in Stamped /\ Live' = Live \ {e}
  BY FrontLeaves
<1>2. /\ totalBytes' = totalBytes - e.row.bytes
      /\ depthByRun' = [depthByRun EXCEPT ![e.row.run] = IF @ = 0 THEN 0 ELSE @ - 1]
  BY DEF PopFront, DecrementDepth
<1> HIDE DEF e
<1>3. Live \in SUBSET Stamped /\ IsFiniteSet(Live)
  BY PlaceTypes DEF SizeInv
<1>4. IsFiniteSet(Live')
  BY <1>1, <1>3, FS_RemoveElement
<1>5. totalBytes' = Bytes(Live')
  <2> DEFINE b == e.row.bytes
             left == Bytes(Live')
  <2>1. b \in Nat
    BY <1>1, BytesOfRow
  <2>2. totalBytes = b + left
    BY <1>1, <1>3, BytesRemove DEF SizeInv
  <2>3. left \in Int
    <3>1. CASE Live' = {}
      BY <3>1, BytesEmpty
    <3>2. CASE Live' # {}
      <4>1. Live' \in SUBSET Stamped
        BY <1>1, <1>3
      <4>2. QED
        BY <1>4, <3>2, <4>1, BytesRemove
    <3>3. QED
      BY <3>1, <3>2
  <2>4. totalBytes' = totalBytes - b
    BY <1>2
  <2> HIDE DEF b, left
  <2>5. totalBytes' = left
    BY <2>1, <2>2, <2>3, <2>4
  <2>6. QED
    BY <2>5 DEF left
<1>6. ASSUME NEW r \in Run PROVE depthByRun'[r] = Cardinality(RowsOf(Live', r))
  <2>1. depthByRun[r] = Cardinality(RowsOf(Live, r)) /\ depthByRun \in [Run -> Nat]
    BY DEF SizeInv, TypeOK
  <2>2. CASE e.row.run = r
    <3>1. /\ Cardinality(RowsOf(Live, r)) # 0
          /\ Cardinality(RowsOf(Live', r)) = Cardinality(RowsOf(Live, r)) - 1
      BY <1>1, <1>3, <2>2, RowsOfMove
    <3>2. depthByRun'[r] = depthByRun[r] - 1
      BY <1>2, <2>1, <2>2, <3>1
    <3>3. QED
      BY <2>1, <3>1, <3>2
  <2>3. CASE e.row.run # r
    <3>1. RowsOf(Live', r) = RowsOf(Live, r)
      BY <1>1, <1>3, <2>3, RowsOfMove
    <3>2. depthByRun'[r] = depthByRun[r]
      BY <1>2, <2>1, <2>3
    <3>3. QED
      BY <2>1, <3>1, <3>2
  <2>4. QED
    BY <2>2, <2>3
<1>7. QED
  BY <1>4, <1>5, <1>6 DEF SizeInv

LEMMA AdmitSize ==
  ASSUME TypeOK, OrderInv, SizeInv, Admit
  PROVE  SizeInv'
<1> DEFINE new == [stamp |-> enqueueCounter, row |-> op.row]
<1>1. op.row \in Row /\ Live' = Live \cup {new}
  BY AdmitRow
<1>2. new \in Stamped /\ new.row = op.row /\ new.stamp = enqueueCounter
  BY <1>1 DEF Stamped, TypeOK
<1>3. /\ totalBytes' = totalBytes + new.row.bytes
      /\ depthByRun' = [depthByRun EXCEPT ![new.row.run] = @ + 1]
  BY <1>2 DEF Admit
<1> HIDE DEF new
<1>4. Live \in SUBSET Stamped /\ IsFiniteSet(Live)
  BY PlaceTypes DEF SizeInv
<1>5. new \notin Live
  <2>1. new \in Live => enqueueCounter < enqueueCounter
    BY <1>2 DEF OrderInv
  <2>2. enqueueCounter \in Nat
    BY DEF TypeOK
  <2>3. QED
    BY <2>1, <2>2
<1>6. IsFiniteSet(Live')
  BY <1>1, <1>4, FS_AddElement
<1>7. totalBytes' = Bytes(Live')
  <2> DEFINE b == new.row.bytes
  <2>1. b \in Nat /\ totalBytes \in Int /\ totalBytes' = totalBytes + b
    BY <1>2, <1>3, BytesOfRow DEF TypeOK
  <2>2. Bytes(Live') = b + totalBytes
    BY <1>1, <1>2, <1>4, <1>5, BytesAdd DEF SizeInv
  <2> HIDE DEF b
  <2>3. QED
    BY <2>1, <2>2
<1>8. ASSUME NEW r \in Run PROVE depthByRun'[r] = Cardinality(RowsOf(Live', r))
  <2>1. depthByRun[r] = Cardinality(RowsOf(Live, r)) /\ depthByRun \in [Run -> Nat]
    BY DEF SizeInv, TypeOK
  <2>2. CASE new.row.run = r
    <3>1. Cardinality(RowsOf(Live', r)) = Cardinality(RowsOf(Live, r)) + 1
      BY <1>1, <1>4, <1>5, <2>2, RowsOfMove
    <3>2. depthByRun'[r] = depthByRun[r] + 1
      BY <1>3, <2>1, <2>2
    <3>3. QED
      BY <2>1, <3>1, <3>2
  <2>3. CASE new.row.run # r
    <3>1. RowsOf(Live', r) = RowsOf(Live, r)
      BY <1>1, <1>4, <2>3, RowsOfMove, ZenonT(60)
    <3>2. depthByRun'[r] = depthByRun[r]
      BY <1>3, <2>1, <2>3
    <3>3. QED
      BY <2>1, <3>1, <3>2
  <2>4. QED
    BY <2>2, <2>3
<1>9. QED
  BY <1>6, <1>7, <1>8 DEF SizeInv

LEMMA InitSize == Init => SizeInv
<1> SUFFICES ASSUME Init PROVE SizeInv
  OBVIOUS
<1>1. Live = {} /\ totalBytes = 0
  BY EmptyRow DEF Init, Live
<1>2. \A r \in Run : RowsOf({}, r) = {} /\ depthByRun[r] = 0
  BY DEF RowsOf, Init
<1>3. QED
  BY <1>1, <1>2, BytesEmpty, FS_EmptySet DEF SizeInv

LEMMA NextSize == FlowInv /\ SizeInv /\ [Next]_vars => SizeInv'
<1> SUFFICES ASSUME FlowInv, SizeInv, [Next]_vars PROVE SizeInv'
  OBVIOUS
<1>i. TypeOK /\ OrderInv
  BY DEF FlowInv
<1>1. ASSUME UNCHANGED bufferVars PROVE SizeInv'
  BY <1>1 DEF SizeInv, bufferVars, Live
<1>2. CASE EvictVictim
  <2>1. PICK t \in Tiers : tiers[t] # <<>> /\ PopFront(t)
    BY <1>2 DEF EvictVictim, VictimTiers
  <2>2. QED
    BY <1>i, <2>1, PopFrontSize
<1>3. CASE MergeOne
  <2>1. PICK t \in Tiers : tiers[t] # <<>> /\ PopFront(t)
    BY <1>3 DEF MergeOne, IsOldestFront
  <2>2. QED
    BY <1>i, <2>1, PopFrontSize
<1>4. CASE Admit
  BY <1>i, <1>4, AdmitSize
<1>5. ASSUME NEW row \in Row, Refuse(row) \/ BeginEnqueue(row) PROVE SizeInv'
  BY <1>1, <1>5 DEF Refuse, BeginEnqueue
<1>6. ASSUME NEW max \in DrainMax, BeginDrain(max) PROVE SizeInv'
  BY <1>1, <1>6 DEF BeginDrain
<1>7. CASE GiveUp \/ EnqueueEdge \/ EndDrain \/ DrainEdges \/ HandOver \/ Requeue
           \/ ShedRetry \/ EndRequeue \/ UNCHANGED vars
  BY <1>1, <1>7 DEF GiveUp, EnqueueEdge, EndDrain, DrainEdges, HandOver, Requeue,
     ShedRetry, EndRequeue, vars
<1>8. QED
  BY <1>2, <1>3, <1>4, <1>5, <1>6, <1>7 DEF Next, Enqueue, Writer

(* The total count, the total size and the depth of every run are what the *)
(* tiers hold, also between the evictions of one enqueue.                  *)
THEOREM CountersExact == Spec => []CountsAgree
<1>1. Init => FlowInv /\ SizeInv
  <2>1. Init => EdgeInv
    BY NoEdges DEF Init, EdgeInv
  <2>2. QED
    BY <2>1, InitType, InitCount, InitOrder, InitSize DEF FlowInv
<1>2. (FlowInv /\ SizeInv) /\ [Next]_vars => (FlowInv /\ SizeInv)'
  BY NextType, NextCount, NextOrder, NextEdges, NextSize DEF FlowInv
<1>3. FlowInv /\ SizeInv => CountsAgree
  BY DEF FlowInv, CountInv, SizeInv, CountsAgree, RowsOf, Bytes
<1>4. QED
  BY <1>1, <1>2, <1>3, PTL DEF Spec
=============================================================================
