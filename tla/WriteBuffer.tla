------------------------------ MODULE WriteBuffer ------------------------------
(***************************************************************************)
(* The priority-aware write buffer of dprovenancekit/write_buffer.py       *)
(* (TraceWriteBuffer), driven by any number of recording threads and by    *)
(* the one writer that drains it, tries to insert what it drained and      *)
(* requeues the batch when the database is busy.                           *)
(*                                                                         *)
(* The buffer's lock is the variable op: it names the call that holds the  *)
(* lock, and the loops inside a call (evicting victims, merging the tiers, *)
(* shedding the retry tail) take one step per iteration.  Nothing else     *)
(* touches the buffer until op is Idle again.                              *)
(*                                                                         *)
(* A row carries what the buffer looks at: its run, its priority and its   *)
(* size (len(payload) + 256 in the code).  The stamp that enqueue gives a  *)
(* row is dropped by the code when the row leaves its tier; it is kept     *)
(* here, as history, in the batch and in the retry queue.                  *)
(***************************************************************************)
EXTENDS Integers, Sequences, FiniteSets, FiniteSetsExt

CONSTANTS
  Run,      \* run identifiers
  Row,      \* the rows that recorders may offer, each of them once
  Configs,  \* the buffer configurations (OfflineConfig and the per-run cap)
  DrainMax, \* the arguments of drain; flush_all is a drain with a large one
  MaxEdges  \* bound: how many edges are offered

TELEMETRY  == 0
DIAGNOSTIC == 1
STRUCTURAL == 2
CRITICAL   == 3
Tiers      == TELEMETRY .. CRITICAL

ASSUME RowAssumption ==
  \A r \in Row : r.run \in Run /\ r.priority \in Int /\ r.bytes \in Nat

ASSUME ConfigAssumption ==
  \A c \in Configs : /\ c.maxItems \in Nat
                     /\ c.maxBytes \in Nat
                     /\ c.maxEventBytes \in Nat
                     /\ c.maxPerRun \in Nat
                     /\ c.eviction \in {"dropOldest", "rejectNew"}

ASSUME BoundsAssumption == DrainMax \subseteq Nat \ {0} /\ MaxEdges \in Nat

VARIABLES
  config,          \* the configuration, fixed when the buffer is built
  tiers,           \* one FIFO of stamped rows per tier
  totalCount,      \* _total_count
  totalBytes,      \* _total_bytes
  enqueueCounter,  \* _enqueue_counter, the next stamp
  dropped,         \* _dropped_by_tier
  depthByRun,      \* _queue_depth_by_run; 0 stands for an absent key
  retryQueue,      \* _retry_queue
  edgeQueue,       \* _edge_queue; an edge is the number of its enqueue_edge
  retryEdges,      \* _retry_edges
  op,              \* the call that holds the lock
  stage,           \* where the writer is in its drain / insert cycle
  batch,           \* the rows the writer holds outside the buffer
  batchEdges,      \* the edges it holds
  offered,         \* history: the rows passed to enqueue
  handedOver,      \* history: the rows of the batches the writer is done with
  edgesOffered     \* history: how often enqueue_edge was called

bufferVars == <<tiers, totalCount, totalBytes, enqueueCounter, depthByRun>>
edgeVars   == <<edgeQueue, retryEdges, batchEdges, edgesOffered>>
writerVars == <<stage, batch, handedOver>>
vars == <<config, bufferVars, dropped, retryQueue, edgeVars, op, writerVars, offered>>

Idle == [call |-> "idle"]
Enqueueing(row) == [call |-> "enqueue", row |-> row]
Merging(max)    == [call |-> "drain", max |-> max]
CappingRetries  == [call |-> "requeue"]

Stamped == [stamp : Nat, row : Row]

(* TracePriority(event.priority), TELEMETRY when the integer is no tier.   *)
Tier(row) == IF row.priority \in Tiers THEN row.priority ELSE TELEMETRY

Least(a, b) == IF a <= b THEN a ELSE b

Init ==
  /\ config \in Configs
  /\ tiers = [t \in Tiers |-> <<>>]
  /\ totalCount = 0 /\ totalBytes = 0 /\ enqueueCounter = 0
  /\ dropped = [t \in Tiers |-> 0]
  /\ depthByRun = [r \in Run |-> 0]
  /\ retryQueue = <<>> /\ edgeQueue = <<>> /\ retryEdges = <<>>
  /\ op = Idle
  /\ stage = "idle" /\ batch = <<>> /\ batchEdges = <<>>
  /\ offered = {} /\ handedOver = <<>> /\ edgesOffered = 0

-----------------------------------------------------------------------------
(* enqueue *)

Oversize(row) == row.bytes > config.maxEventBytes

Bursting(row) ==
  depthByRun[row.run] >= config.maxPerRun /\ Tier(row) <= DIAGNOSTIC

(* Mutant: one row too many is let in.                                     *)
OverCapacityLate(row) ==
  totalCount > config.maxItems \/ totalBytes + row.bytes > config.maxBytes

OverCapacity(row) ==
  \/ totalCount >= config.maxItems
  \/ totalBytes + row.bytes > config.maxBytes

(* Mutant: the tally is moved the wrong way.                               *)
CountDropDown(t) == dropped' = [dropped EXCEPT ![t] = @ - 1]

CountDrop(t) == dropped' = [dropped EXCEPT ![t] = @ + 1]

(* An oversize row, or a verbose row of a bursting run, is counted and     *)
(* refused before the buffer is looked at.                                 *)
Refuse(row) ==
  /\ op = Idle
  /\ row \notin offered
  /\ Oversize(row) \/ Bursting(row)
  /\ offered' = offered \cup {row}
  /\ CountDrop(Tier(row))
  /\ UNCHANGED <<config, bufferVars, retryQueue, edgeVars, op, writerVars>>

BeginEnqueue(row) ==
  /\ op = Idle
  /\ row \notin offered
  /\ ~Oversize(row) /\ ~Bursting(row)
  /\ offered' = offered \cup {row}
  /\ op' = Enqueueing(row)
  /\ UNCHANGED <<config, bufferVars, dropped, retryQueue, edgeVars, writerVars>>

(* _decrement_run_depth: an absent run stays absent.                       *)
DecrementDepth(run) ==
  depthByRun' = [depthByRun EXCEPT ![run] = IF @ = 0 THEN 0 ELSE @ - 1]

(* Mutant: the run's depth does not come down with its row.                *)
PopFrontKeepDepth(t) ==
  /\ tiers' = [tiers EXCEPT ![t] = Tail(@)]
  /\ totalCount' = totalCount - 1
  /\ totalBytes' = totalBytes - Head(tiers[t]).row.bytes
  /\ UNCHANGED depthByRun

(* What both pop_first sites do to the counters.                           *)
PopFront(t) ==
  LET gone == Head(tiers[t])
  IN  /\ tiers' = [tiers EXCEPT ![t] = Tail(@)]
      /\ totalCount' = totalCount - 1
      /\ totalBytes' = totalBytes - gone.row.bytes
      /\ DecrementDepth(gone.row.run)

(* Mutant: any arrival may displace any row.                               *)
VictimTiersAny(row) == {t \in Tiers : tiers[t] # <<>>}

(* The tiers _evict_one_locked may take a victim from: only a CRITICAL     *)
(* arrival may displace structural and critical rows.                      *)
VictimTiers(row) ==
  {t \in Tiers : tiers[t] # <<>> /\ (t <= DIAGNOSTIC \/ Tier(row) = CRITICAL)}

EvictVictim ==
  /\ op.call = "enqueue"
  /\ OverCapacity(op.row)
  /\ config.eviction = "dropOldest"
  /\ \E t \in VictimTiers(op.row) :
       /\ \A u \in VictimTiers(op.row) : t <= u
       /\ PopFront(t)
       /\ CountDrop(t)
  /\ UNCHANGED <<config, enqueueCounter, retryQueue, edgeVars, op, writerVars, offered>>

(* The arrival itself is dropped; what was evicted for it stays evicted.   *)
GiveUp ==
  /\ op.call = "enqueue"
  /\ OverCapacity(op.row)
  /\ config.eviction = "rejectNew" \/ VictimTiers(op.row) = {}
  /\ CountDrop(Tier(op.row))
  /\ op' = Idle
  /\ UNCHANGED <<config, bufferVars, retryQueue, edgeVars, writerVars, offered>>

Admit ==
  /\ op.call = "enqueue"
  /\ ~OverCapacity(op.row)
  /\ tiers' = [tiers EXCEPT ![Tier(op.row)] =
                 Append(@, [stamp |-> enqueueCounter, row |-> op.row])]
  /\ enqueueCounter' = enqueueCounter + 1
  /\ totalCount' = totalCount + 1
  /\ totalBytes' = totalBytes + op.row.bytes
  /\ depthByRun' = [depthByRun EXCEPT ![op.row.run] = @ + 1]
  /\ op' = Idle
  /\ UNCHANGED <<config, dropped, retryQueue, edgeVars, writerVars, offered>>

EnqueueEdge ==
  /\ op = Idle
  /\ edgesOffered < MaxEdges
  /\ edgesOffered' = edgesOffered + 1
  /\ edgeQueue' = Append(edgeQueue, edgesOffered + 1)
  /\ UNCHANGED <<config, bufferVars, dropped, retryQueue, retryEdges, op,
                 writerVars, batchEdges, offered>>

-----------------------------------------------------------------------------
(* drain and flush_all, called by the writer *)

(* Retries are taken first; the merge is entered only when some room is    *)
(* left and the counter says that something is live.                       *)
BeginDrain(max) ==
  LET k == Least(max, Len(retryQueue))
  IN  /\ op = Idle
      /\ stage = "idle"
      /\ batch' = SubSeq(retryQueue, 1, k)
      /\ retryQueue' = SubSeq(retryQueue, k + 1, Len(retryQueue))
      /\ IF totalCount = 0 \/ k >= max
           THEN op' = Idle /\ stage' = "edges"
           ELSE op' = Merging(max) /\ stage' = "drain"
      /\ UNCHANGED <<config, bufferVars, dropped, edgeVars, handedOver, offered>>

(* Mutant: the most urgent tier is drained first.                          *)
IsUrgentFront(t) ==
  tiers[t] # <<>> /\ \A u \in Tiers : tiers[u] # <<>> => u <= t

(* One round of the k-way merge: the tier whose front has the least stamp. *)
IsOldestFront(t) ==
  /\ tiers[t] # <<>>
  /\ \A u \in Tiers : tiers[u] # <<>> => Head(tiers[t]).stamp <= Head(tiers[u]).stamp

MergeOne ==
  /\ op.call = "drain"
  /\ Len(batch) < op.max
  /\ \E t \in Tiers :
       /\ IsOldestFront(t)
       /\ batch' = Append(batch, Head(tiers[t]))
       /\ PopFront(t)
  /\ UNCHANGED <<config, enqueueCounter, dropped, retryQueue, edgeVars, op,
                 stage, handedOver, offered>>

EndDrain ==
  /\ op.call = "drain"
  /\ Len(batch) >= op.max \/ \A t \in Tiers : tiers[t] = <<>>
  /\ op' = Idle
  /\ stage' = "edges"
  /\ UNCHANGED <<config, bufferVars, dropped, retryQueue, edgeVars, batch,
                 handedOver, offered>>

(* drain_edges is a second acquisition of the lock: rows and edges may be  *)
(* enqueued between the two.  An empty cycle ends here.                    *)
DrainEdges ==
  /\ op = Idle
  /\ stage = "edges"
  /\ batchEdges' = retryEdges \o edgeQueue
  /\ retryEdges' = <<>>
  /\ edgeQueue' = <<>>
  /\ stage' = IF batch = <<>> /\ batchEdges' = <<>> THEN "idle" ELSE "insert"
  /\ UNCHANGED <<config, bufferVars, dropped, retryQueue, edgesOffered, op,
                 batch, handedOver, offered>>

-----------------------------------------------------------------------------
(* The writer's insert, seen from the buffer: the batch is done with       *)
(* (committed, or lost and counted by the writer), or it comes back.       *)

HandOver ==
  /\ stage = "insert"
  /\ handedOver' = handedOver \o batch
  /\ batch' = <<>>
  /\ batchEdges' = <<>>
  /\ stage' = "idle"
  /\ UNCHANGED <<config, bufferVars, dropped, retryQueue, edgeQueue, retryEdges,
                 edgesOffered, op, offered>>

(* Mutant: a failed batch goes behind the retries instead of before them.  *)
RequeueBehind ==
  /\ op = Idle
  /\ stage = "insert"
  /\ retryQueue' = retryQueue \o batch
  /\ retryEdges' = batchEdges \o retryEdges
  /\ batch' = <<>> /\ batchEdges' = <<>>
  /\ op' = CappingRetries /\ stage' = "requeue"
  /\ UNCHANGED <<config, bufferVars, dropped, edgeQueue, edgesOffered, handedOver,
                 offered>>

Requeue ==
  /\ op = Idle
  /\ stage = "insert"
  /\ retryQueue' = batch \o retryQueue
  /\ retryEdges' = batchEdges \o retryEdges
  /\ batch' = <<>>
  /\ batchEdges' = <<>>
  /\ op' = CappingRetries
  /\ stage' = "requeue"
  /\ UNCHANGED <<config, bufferVars, dropped, edgeQueue, edgesOffered, handedOver,
                 offered>>

(* Mutant: the rows over the cap vanish uncounted.                         *)
ShedRetrySilently ==
  /\ op.call = "requeue"
  /\ Len(retryQueue) > config.maxItems
  /\ retryQueue' = SubSeq(retryQueue, 1, Len(retryQueue) - 1)
  /\ UNCHANGED <<config, bufferVars, dropped, edgeVars, op, writerVars, offered>>

(* _enforce_retry_cap_locked: rows over the cap are counted, edges are not. *)
ShedRetry ==
  LET last == retryQueue[Len(retryQueue)]
  IN  /\ op.call = "requeue"
      /\ Len(retryQueue) > config.maxItems
      /\ retryQueue' = SubSeq(retryQueue, 1, Len(retryQueue) - 1)
      /\ CountDrop(Tier(last.row))
      /\ UNCHANGED <<config, bufferVars, edgeVars, op, writerVars, offered>>

EndRequeue ==
  /\ op.call = "requeue"
  /\ Len(retryQueue) <= config.maxItems
  /\ retryEdges' = SubSeq(retryEdges, 1, Least(config.maxItems, Len(retryEdges)))
  /\ op' = Idle
  /\ stage' = "idle"
  /\ UNCHANGED <<config, bufferVars, dropped, retryQueue, edgeQueue, batchEdges,
                 edgesOffered, batch, handedOver, offered>>

-----------------------------------------------------------------------------
Enqueue ==
  \/ \E row \in Row : Refuse(row) \/ BeginEnqueue(row)
  \/ EvictVictim
  \/ GiveUp
  \/ Admit

Writer ==
  \/ \E max \in DrainMax : BeginDrain(max)
  \/ MergeOne
  \/ EndDrain
  \/ DrainEdges
  \/ HandOver
  \/ Requeue
  \/ ShedRetry
  \/ EndRequeue

Next == Enqueue \/ EnqueueEdge \/ Writer

Spec == Init /\ [][Next]_vars

-----------------------------------------------------------------------------
(* Properties *)

Edge == 1 .. MaxEdges

(* Types of every variable; a call is one of the four that hold the lock.  *)
TypeOK ==
  /\ config \in Configs
  /\ tiers \in [Tiers -> Seq(Stamped)]
  /\ totalCount \in Int /\ totalBytes \in Int /\ enqueueCounter \in Nat
  /\ dropped \in [Tiers -> Nat]
  /\ depthByRun \in [Run -> Nat]
  /\ retryQueue \in Seq(Stamped)
  /\ edgeQueue \in Seq(Edge) /\ retryEdges \in Seq(Edge) /\ batchEdges \in Seq(Edge)
  /\ edgesOffered \in 0 .. MaxEdges
  /\ op \in {Idle, CappingRetries} \cup [call : {"enqueue"}, row : Row]
              \cup [call : {"drain"}, max : DrainMax]
  /\ stage \in {"idle", "drain", "edges", "insert", "requeue"}
  /\ batch \in Seq(Stamped) /\ handedOver \in Seq(Stamped)
  /\ offered \subseteq Row

LiveCount == Len(tiers[TELEMETRY]) + Len(tiers[DIAGNOSTIC])
               + Len(tiers[STRUCTURAL]) + Len(tiers[CRITICAL])

DropCount == dropped[TELEMETRY] + dropped[DIAGNOSTIC]
               + dropped[STRUCTURAL] + dropped[CRITICAL]

Live == UNION {Range(tiers[t]) : t \in Tiers}

CountIsOccupancy == totalCount = LiveCount

(* The counters that drive congestion control never drift from what the    *)
(* tiers hold: the total count, the total size and the depth of each run,  *)
(* also between the evictions of one enqueue.                              *)
CountsAgree ==
  /\ CountIsOccupancy
  /\ totalBytes = MapThenSumSet(LAMBDA e : e.row.bytes, Live)
  /\ \A r \in Run : depthByRun[r] = Cardinality({e \in Live : e.row.run = r})

(* The live tiers never exceed max_items or max_bytes, the retry queue is  *)
(* back under max_items whenever the buffer's lock is free, and what the   *)
(* writer holds outside the buffer adds at most another max_items, however *)
(* often a busy database sends batches back.                               *)
WithinCapacity ==
  /\ totalCount <= config.maxItems
  /\ totalBytes <= config.maxBytes
  /\ op = Idle => Len(retryQueue) <= config.maxItems
  /\ Len(batch) + Len(retryQueue) <= 2 * config.maxItems

(* No silent loss: each row that was ever offered is live, waiting for a   *)
(* retry, in the writer's batch, handed over, or counted in exactly one    *)
(* tier of the drop tally (or it is the one being enqueued right now).     *)
Arriving == IF op.call = "enqueue" THEN 1 ELSE 0

Conservation ==
  Cardinality(offered) =
    LiveCount + Len(retryQueue) + Len(batch) + Len(handedOver) + DropCount + Arriving

(* Rows leave in the order in which they were enqueued: what was handed    *)
(* over, then the batch, then the retries carry increasing stamps, all of  *)
(* them below every live stamp, whatever was evicted, shed or requeued;    *)
(* edges wait in the order in which they were linked and none of them twice. *)
Outbound == handedOver \o batch \o retryQueue
OutboundEdges == batchEdges \o retryEdges \o edgeQueue

InsertionOrder ==
  /\ \A i, j \in 1 .. Len(Outbound) : i < j => Outbound[i].stamp < Outbound[j].stamp
  /\ \A i \in 1 .. Len(Outbound), t \in Tiers : \A j \in 1 .. Len(tiers[t]) :
       Outbound[i].stamp < tiers[t][j].stamp
  /\ \A i, j \in 1 .. Len(OutboundEdges) : i < j => OutboundEdges[i] < OutboundEdges[j]

(* Under global pressure a row of tier t is lost only when no row of a     *)
(* cheaper tier is live, and a queued structural or critical row only to   *)
(* an arrival that is critical itself.                                     *)
CheapestFirst ==
  [][op.call = "enqueue" /\ dropped' # dropped =>
       \A t \in Tiers : dropped'[t] > dropped[t] /\ config.eviction = "dropOldest" =>
         /\ \A u \in Tiers : u < t => tiers[u] = <<>>
         /\ tiers'[t] # tiers[t] /\ t > DIAGNOSTIC => Tier(op.row) = CRITICAL]_vars

(* The buffer is a lossy queue to the writer behind it: rows it hands over *)
(* come in the order of their enqueue, once each, and every other row that *)
(* left it was counted.                                                    *)
Queue == INSTANCE LossyQueue WITH
  Item      <- Row,
  next      <- enqueueCounter,
  pending   <- Live \cup Range(batch) \cup Range(retryQueue),
  delivered <- Range(handedOver),
  lost      <- DropCount

ImplementsQueue == Queue!Spec
=============================================================================
