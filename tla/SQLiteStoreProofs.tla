--------------------------- MODULE SQLiteStoreProofs ---------------------------
(***************************************************************************)
(* Proofs about SQLiteStore, for every set of recording threads, every     *)
(* capacity, every batch size and every schedule of recorders, writer,     *)
(* busy database, failures, crashes and sessions.                          *)
(***************************************************************************)
EXTENDS SQLiteStore, SequenceFacts, FiniteSetTheorems

-----------------------------------------------------------------------------
(* The types, and the rows that are where *)

LEMMA NoneIsNoEvent == None \notin Event
<1>1. None.run = "none" /\ DOMAIN None = {"run"}
  BY DEF None
<1>2. \A e \in Event : DOMAIN e = {"run", "seq", "by"}
  BY DEF Event
<1>3. QED
  BY <1>1, <1>2

(* A tally counts as many rows as it adds to what is lost, when no row is  *)
(* there twice.                                                            *)
LEMMA TallyParts ==
  ASSUME TypeOK, NEW rows \in Seq(Event), TallyRecord(rows)
  PROVE  /\ tally' \in Nat /\ lost' = lost \cup {e \in Range(rows) : InTier(e)}
         /\ lost' \subseteq Event
         /\ (\A i, j \in 1 .. Len(rows) : i # j => rows[i] # rows[j]) =>
              /\ IsFiniteSet({e \in Range(rows) : InTier(e)})
              /\ tally' = tally + Cardinality({e \in Range(rows) : InTier(e)})
<1> DEFINE places == {i \in DOMAIN rows : InTier(rows[i])}
           kept == {e \in Range(rows) : InTier(e)}
<1>1. tally' = tally + Cardinality(places) /\ lost' = lost \cup kept
  BY DEF TallyRecord
<1>2. DOMAIN rows = 1 .. Len(rows) /\ Len(rows) \in Nat
  BY LenProperties
<1>3. IsFiniteSet(places) /\ Cardinality(places) \in Nat
  <2>1. IsFiniteSet(1 .. Len(rows))
    BY <1>2, FS_Interval
  <2>2. QED
    BY <1>2, <2>1, FS_Subset, FS_CardinalityType
<1>4. kept \subseteq Event
  BY RangeOfSeq
<1>5. ASSUME \A i, j \in 1 .. Len(rows) : i # j => rows[i] # rows[j]
      PROVE  IsFiniteSet(kept) /\ Cardinality(kept) = Cardinality(places)
  <2> DEFINE row == [i \in places |-> rows[i]]
  <2>1. row \in Bijection(places, kept)
    <3>1. \A i \in places : rows[i] \in kept
      BY DEF Range
    <3>2. row \in [places -> kept]
      BY <3>1
    <3>3. \A i, j \in places : row[i] = row[j] => i = j
      BY <1>2, <1>5
    <3>4. \A e \in kept : \E i \in places : row[i] = e
      BY DEF Range
    <3>5. QED
      BY <3>2, <3>3, <3>4 DEF Bijection, Injection, Surjection, IsInjective
  <2>2. QED
    BY <1>3, <2>1, FS_Bijection DEF ExistsBijection
<1>6. QED
  BY <1>1, <1>3, <1>4, <1>5 DEF TypeOK

(* While a sequence number may still be handed out, each run has one left. *)
LEMMA NumbersLeft ==
  ASSUME nextSeq \in [Run -> 0 .. MaxEvents], Cardinality(Numbered) < MaxEvents,
         NEW r \in Run
  PROVE  nextSeq[r] \in 0 .. MaxEvents - 1
<1> DEFINE numbers == 0 .. MaxEvents - 1
           all == {r} \X numbers
<1> SUFFICES ASSUME nextSeq[r] = MaxEvents PROVE FALSE
  BY StoreAssumption
<1>1. /\ IsFiniteSet(numbers) /\ Cardinality(numbers) = MaxEvents
      /\ IsFiniteSet({r}) /\ Cardinality({r}) = 1
  <2>1. /\ IsFiniteSet(numbers)
        /\ Cardinality(numbers) =
             IF 0 > MaxEvents - 1 THEN 0 ELSE MaxEvents - 1 - 0 + 1
    <3>1. 0 \in Int /\ MaxEvents - 1 \in Int
      BY StoreAssumption
    <3>2. QED
      BY <3>1, FS_Interval
  <2>2. Cardinality(numbers) = MaxEvents
    BY <2>1, StoreAssumption
  <2>3. QED
    BY <2>1, <2>2, FS_Singleton
<1>2. Cardinality(all) = MaxEvents
  <2>1. Cardinality(all) = Cardinality({r}) * Cardinality(numbers)
    BY <1>1, FS_Product
  <2>2. QED
    BY <1>1, <2>1, StoreAssumption
<1>3. IsFiniteSet(Run \X numbers)
  BY <1>1, StoreAssumption, FS_Product
<1>4. Numbered \in SUBSET (Run \X numbers)
  BY DEF Numbered
<1>5. IsFiniteSet(Numbered)
  BY <1>3, <1>4, FS_Subset
<1>6. all \in SUBSET Numbered
  BY StoreAssumption DEF Numbered
<1>7. Cardinality(all) <= Cardinality(Numbered) /\ Cardinality(Numbered) \in Nat
  BY <1>5, <1>6, FS_Subset, FS_CardinalityType
<1>8. QED
  BY <1>2, <1>7, StoreAssumption

(* What a drain takes is the front of the retries and, when these are      *)
(* taken, the front of the live rows.                                      *)
TakenRetries(max) == Least(max, Len(retry))
TakenLive(max)    == Least(max - TakenRetries(max), Len(live))

LEMMA DrainCounts ==
  ASSUME TypeOK, NEW max \in Nat
  PROVE  /\ TakenRetries(max) \in 0 .. Len(retry)
         /\ TakenLive(max) \in 0 .. Len(live)
         /\ TakenRetries(max) = Len(retry) \/ TakenLive(max) = 0
         /\ max = Len(retry) + Len(live) =>
              TakenRetries(max) = Len(retry) /\ TakenLive(max) = Len(live)
<1>1. Len(retry) \in Nat /\ Len(live) \in Nat
  BY LenProperties DEF TypeOK
<1>2. QED
  BY <1>1 DEF TakenRetries, TakenLive, Least

LEMMA DrainParts ==
  ASSUME NEW max, Drain(max)
  PROVE  /\ batch' = Taken(retry, TakenRetries(max)) \o Taken(live, TakenLive(max))
         /\ retry' = Left(retry, TakenRetries(max))
         /\ live' = Left(live, TakenLive(max))
  BY DEF Drain, TakenRetries, TakenLive, Taken, Left

LEMMA DrainType ==
  ASSUME TypeOK, NEW max \in Nat, Drain(max)
  PROVE  batch' \in Seq(Event) /\ retry' \in Seq(Event) /\ live' \in Seq(Event)
<1>1. /\ Taken(retry, TakenRetries(max)) \in Seq(Event)
      /\ Left(retry, TakenRetries(max)) \in Seq(Event)
      /\ Taken(live, TakenLive(max)) \in Seq(Event)
      /\ Left(live, TakenLive(max)) \in Seq(Event)
  BY DrainCounts, Split DEF TypeOK
<1>2. QED
  BY <1>1, DrainParts, ConcatProperties

(* A busy batch goes before the retries; what exceeds the cap is shed.     *)
Requeued == batch \o retry
Room     == Least(Capacity, Len(Requeued))
Shed     == Left(Requeued, Room)

LEMMA BusyParts ==
  ASSUME TypeOK, BusyBatch
  PROVE  /\ Requeued \in Seq(Event) /\ Room \in 0 .. Len(Requeued)
         /\ Shed \in Seq(Event) /\ Len(Shed) \in Nat
         /\ retry' = Taken(Requeued, Room) /\ retry' \in Seq(Event)
         /\ tally' = tally + Len(Shed) /\ lost' = lost \cup Range(Shed)
<1>1. Requeued \in Seq(Event) /\ Len(Requeued) \in Nat
  BY ConcatProperties, LenProperties DEF TypeOK, Requeued
<1>2. Room \in 0 .. Len(Requeued)
  BY <1>1, StoreAssumption DEF Room, Least
<1>3. /\ Shed \in Seq(Event) /\ Taken(Requeued, Room) \in Seq(Event)
      /\ Len(Shed) \in Nat
  BY <1>1, <1>2, Split, LenProperties DEF Shed
<1>4. SubSeq(Requeued, Capacity + 1, Len(Requeued)) = Shed
  <2>1. CASE Capacity <= Len(Requeued)
    BY <1>1, <2>1, StoreAssumption DEF Shed, Room, Least, Left
  <2>2. CASE Capacity > Len(Requeued)
    <3>1. Room = Len(Requeued)
      BY <1>1, <2>2, StoreAssumption DEF Room, Least
    <3>2. Len(Requeued) < Capacity + 1 /\ Len(Requeued) < Len(Requeued) + 1
      BY <1>1, <2>2, StoreAssumption
    <3>3. SubSeq(Requeued, Capacity + 1, Len(Requeued)) = <<>>
      BY <1>1, <3>2, StoreAssumption, SubSeqEmpty
    <3>4. SubSeq(Requeued, Len(Requeued) + 1, Len(Requeued)) = <<>>
      BY <1>1, <3>2, SubSeqEmpty
    <3>5. QED
      BY <3>1, <3>3, <3>4 DEF Shed, Left
  <2>3. QED
    BY <1>1, <2>1, <2>2, StoreAssumption
<1>5. retry' = Taken(Requeued, Room)
  BY DEF BusyBatch, Requeued, Room, Taken
<1>6. tally' = tally + Len(Shed) /\ lost' = lost \cup Range(Shed)
  BY <1>4 DEF BusyBatch, Requeued
<1>7. QED
  BY <1>1, <1>2, <1>3, <1>5, <1>6

LEMMA CommitType ==
  ASSUME TypeOK, CommitBatch
  PROVE  /\ events' \in Seq(Event) /\ active' \in [Run -> Seq(Event)]
         /\ dirty' \subseteq Run
<1>1. events' \in Seq(Event)
  BY ConcatProperties DEF TypeOK, CommitBatch
<1>2. \A r \in Run : active[r] \o OfRun(batch, r) \in Seq(Event)
  BY OfRunType, ConcatProperties DEF TypeOK
<1>3. \A e \in Range(batch) : e.run \in Run
  <2>1. Range(batch) \subseteq Event
    BY RangeOfSeq DEF TypeOK
  <2>2. QED
    BY <2>1 DEF Event
<1>4. QED
  BY <1>1, <1>2, <1>3 DEF TypeOK, CommitBatch

(* A dead process has left no memory behind, and another may follow it.    *)
DownInv ==
  phase = "down" =>
    /\ session < MaxSessions
    /\ held = [t \in Recorder |-> None]
    /\ retry = <<>> /\ live = <<>> /\ batch = <<>> /\ lost = {} /\ tally = 0
    /\ wpc = "idle" /\ mode = "tick" /\ goal = {}
    /\ active = [r \in Run |-> <<>>] /\ dirty = {}

LEMMA InitType == Init => TypeOK /\ DownInv
<1>1. /\ 1 \in 1 .. MaxSessions /\ 0 \in 0 .. MaxSessions /\ 0 \in 0 .. MaxEvents
      /\ <<>> \in Seq(Event)
  BY StoreAssumption, EmptySeq
<1> SUFFICES ASSUME Init PROVE TypeOK /\ DownInv
  OBVIOUS
<1>2. /\ session \in 1 .. MaxSessions
      /\ phase = "open"
      /\ runSession \in [Run -> 0 .. MaxSessions]
      /\ nextSeq \in [Run -> 0 .. MaxEvents]
      /\ held \in [Recorder -> Event \cup {None}]
  BY <1>1 DEF Init
<1>3. /\ active \in [Run -> Seq(Event)]
      /\ runs \in [Run -> [count : Nat, fingerprint : Seq(Event)]]
  BY <1>1 DEF Init
<1>4. /\ retry \in Seq(Event) /\ live \in Seq(Event) /\ batch \in Seq(Event)
      /\ events \in Seq(Event)
  BY <1>1 DEF Init
<1>5. QED
  BY <1>2, <1>3, <1>4 DEF Init, TypeOK, DownInv

LEMMA NextType == TypeOK /\ DownInv /\ [Next]_vars => TypeOK'
<1> SUFFICES ASSUME TypeOK, DownInv, [Next]_vars PROVE TypeOK'
  OBVIOUS
<1>a. <<>> \in Seq(Event)
  BY EmptySeq
<1>1. ASSUME NEW t \in Recorder, NEW r \in Run, TakeSequence(t, r) PROVE TypeOK'
  <2>1. nextSeq[r] \in 0 .. MaxEvents - 1
    BY <1>1, NumbersLeft DEF TypeOK, TakeSequence
  <2>2. [run |-> r, seq |-> nextSeq[r], by |-> t] \in Event
    BY <2>1 DEF Event
  <2>3. nextSeq[r] + 1 \in 0 .. MaxEvents
    BY <2>1, StoreAssumption
  <2>4. session \in 0 .. MaxSessions
    BY DEF TypeOK
  <2>5. /\ held' \in [Recorder -> Event \cup {None}]
        /\ nextSeq' \in [Run -> 0 .. MaxEvents]
        /\ runSession' \in [Run -> 0 .. MaxSessions]
    BY <1>1, <2>2, <2>3, <2>4 DEF TypeOK, TakeSequence
  <2>6. QED
    BY <1>1, <2>5 DEF TypeOK, TakeSequence, bufVars, lossVars, memVars, flushVars, dbVars
<1>2. ASSUME NEW t \in Recorder, EncodeFails(t) PROVE TypeOK'
  <2>1. held[t] \in Event /\ held' \in [Recorder -> Event \cup {None}]
    BY <1>2 DEF TypeOK, EncodeFails
  <2>2. tally' \in Nat /\ lost' \subseteq Event
    <3>1. <<held[t]>> \in Seq(Event)
      BY <2>1
    <3>2. TallyRecord(<<held[t]>>)
      BY <1>2 DEF EncodeFails
    <3>3. QED
      BY <3>1, <3>2, TallyParts
  <2>3. QED
    BY <1>2, <2>1, <2>2 DEF TypeOK, EncodeFails, procVars, bufVars, memVars,
       flushVars, dbVars
<1>3. ASSUME NEW t \in Recorder, StoreRecord(t) PROVE TypeOK'
  <2>1. held[t] \in Event /\ held' \in [Recorder -> Event \cup {None}]
    BY <1>3 DEF TypeOK, StoreRecord
  <2>2. live' \in Seq(Event) /\ tally' \in Nat /\ lost' \subseteq Event
    <3>1. CASE live' = Append(live, held[t]) /\ UNCHANGED lossVars
      BY <2>1, <3>1, AppendProperties DEF TypeOK, lossVars
    <3>2. CASE Lose(held[t]) /\ UNCHANGED live
      BY <2>1, <3>2 DEF TypeOK, Lose
    <3>3. ASSUME NEW i \in 1 .. Len(live), Lose(live[i]),
                 live' = Append(RemoveAt(live, i), held[t])
          PROVE  live' \in Seq(Event) /\ tally' \in Nat /\ lost' \subseteq Event
      <4>1. live[i] \in Event /\ RemoveAt(live, i) \in Seq(Event)
        BY Removed, ElementOfSeq DEF TypeOK
      <4>2. QED
        BY <2>1, <3>3, <4>1, AppendProperties DEF TypeOK, Lose
    <3>4. QED
      BY <1>3, <3>1, <3>2, <3>3 DEF StoreRecord
  <2>3. QED
    BY <1>3, <2>1, <2>2 DEF TypeOK, StoreRecord, procVars, memVars, flushVars, dbVars
<1>4. CASE Link
  BY <1>4, SMTT(60), ZenonT(30) DEF Link, TypeOK, procVars, lossVars, memVars, flushVars, dbVars
<1>5. CASE BeginTick
  <2>1. PICK max \in Nat : Drain(max)
    BY <1>5, StoreAssumption DEF BeginTick
  <2>2. batch' \in Seq(Event) /\ retry' \in Seq(Event) /\ live' \in Seq(Event)
    BY <2>1, DrainType
  <2>3. QED
    BY <1>5, <2>2 DEF BeginTick, TypeOK, procVars, lossVars, memVars, dbVars
<1>6. CASE BeginFlush
  <2>1. Len(retry) + Len(live) \in Nat
    BY LenProperties DEF TypeOK
  <2>2. batch' \in Seq(Event) /\ retry' \in Seq(Event) /\ live' \in Seq(Event)
    BY <1>6, <2>1, DrainType DEF BeginFlush
  <2>3. goal' \subseteq Event
    BY <1>6, RangeOfSeq DEF BeginFlush, TypeOK
  <2>4. mode' \in {"tick", "flush", "close"}
    BY <1>6 DEF BeginFlush
  <2>5. QED
    BY <1>6, <2>2, <2>3, <2>4 DEF BeginFlush, TypeOK, procVars, lossVars, memVars, dbVars
<1>7. CASE DrainEdges
  BY <1>7 DEF DrainEdges, TypeOK, procVars, lossVars, memVars, flushVars, dbVars
<1>8. CASE CommitBatch
  BY <1>a, <1>8, CommitType DEF CommitBatch, TypeOK, procVars, bufVars, lossVars, flushVars
<1>9. CASE BusyBatch
  <2>1. tally' \in Nat /\ lost' \subseteq Event /\ retry' \in Seq(Event)
    BY <1>9, BusyParts, RangeOfSeq DEF TypeOK
  <2>2. edges' \in Nat
    BY <1>9, StoreAssumption DEF BusyBatch, TypeOK, Least
  <2>3. batch' = <<>> /\ batchEdges' = 0 /\ trouble' = TRUE /\ wpc' = "runs"
    BY <1>9 DEF BusyBatch
  <2>4. UNCHANGED <<procVars, nextSeq, held, live, memVars, mode, goal, dbVars>>
    BY <1>9 DEF BusyBatch
  <2>5. QED
    BY <1>a, <2>1, <2>2, <2>3, <2>4 DEF TypeOK, procVars, memVars, dbVars
<1>10. CASE FatalBatch
  <2>1. tally' \in Nat /\ lost' \subseteq Event
    BY <1>10, TallyParts DEF FatalBatch, TypeOK
  <2>2. QED
    BY <1>a, <1>10, <2>1 DEF FatalBatch, TypeOK, procVars, bufVars, memVars, dbVars
<1>11. CASE FlushRuns
  <2>1. \A r \in Run : [count |-> Len(active[r]), fingerprint |-> active[r]]
                         \in [count : Nat, fingerprint : Seq(Event)]
    BY LenProperties DEF TypeOK
  <2>2. runs' \in [Run -> [count : Nat, fingerprint : Seq(Event)]]
    BY <1>11, <2>1 DEF FlushRuns, TypeOK
  <2>3. dirty' \subseteq Run /\ trouble' \in BOOLEAN
    BY <1>11 DEF FlushRuns, TypeOK
  <2>4. EndCycle
    BY <1>11 DEF FlushRuns
  <2>5. QED
    BY <2>2, <2>3, <2>4 DEF EndCycle, TypeOK, bufVars, lossVars
<1>12. CASE FlushRunsFails
  BY <1>12 DEF FlushRunsFails, EndCycle, TypeOK, bufVars, lossVars
<1>13. CASE SkipRuns
  BY <1>13 DEF SkipRuns, EndCycle, TypeOK, bufVars, lossVars
<1>14. CASE Shutdown
  BY <1>14 DEF Shutdown, TypeOK, bufVars, lossVars, memVars, flushVars, dbVars
<1>15. CASE CloseDatabase
  BY <1>15 DEF CloseDatabase, TypeOK, bufVars, lossVars, memVars, flushVars, dbVars
<1>16. CASE Crash
  BY <1>a, <1>16 DEF Crash, TypeOK, dbVars
<1>17. CASE Reopen
  <2>1. \A r \in Run : Reconciled(r) \in [count : Nat, fingerprint : Seq(Event)]
    <3> TAKE r \in Run
    <3>1. /\ runs[r] \in [count : Nat, fingerprint : Seq(Event)]
          /\ Len(OfRun(events, r)) \in Nat
      BY OfRunType, LenProperties DEF TypeOK
    <3>2. QED
      BY <3>1 DEF Reconciled
  <2>2. session' \in 1 .. MaxSessions
    BY <1>17, StoreAssumption DEF Reopen, DownInv, TypeOK
  <2>3. QED
    BY <1>17, <2>1, <2>2 DEF Reopen, TypeOK, bufVars, lossVars, memVars, flushVars
<1>18. CASE UNCHANGED vars
  BY <1>18 DEF vars, TypeOK, procVars, bufVars, lossVars, memVars, flushVars, dbVars
<1>19. QED
  BY <1>1, <1>2, <1>3, <1>4, <1>5, <1>6, <1>7, <1>8, <1>9, <1>10, <1>11, <1>12,
     <1>13, <1>14, <1>15, <1>16, <1>17, <1>18 DEF Next, Record, WriterStep

LEMMA NextDown == TypeOK /\ DownInv /\ [Next]_vars => DownInv'
<1> SUFFICES ASSUME TypeOK, DownInv, [Next]_vars, phase' = "down" PROVE DownInv'
  BY DEF DownInv
<1>1. CASE Crash
  BY <1>1 DEF Crash, DownInv
<1>2. CASE UNCHANGED vars
  BY <1>2 DEF vars, procVars, bufVars, lossVars, memVars, flushVars, DownInv
<1>3. CASE phase # "down"
  <2>1. ASSUME NEW t \in Recorder, NEW r \in Run, TakeSequence(t, r) PROVE FALSE
    BY <1>3, <2>1 DEF TakeSequence
  <2>2. ASSUME NEW t \in Recorder, EncodeFails(t) \/ StoreRecord(t) PROVE FALSE
    BY <1>3, <2>2 DEF EncodeFails, StoreRecord, procVars
  <2>3. CASE Link \/ BeginTick \/ BeginFlush
    BY <1>3, <2>3 DEF Link, BeginTick, BeginFlush, procVars
  <2>4. CASE DrainEdges \/ CommitBatch \/ BusyBatch \/ FatalBatch
    BY <1>3, <2>4 DEF DrainEdges, CommitBatch, BusyBatch, FatalBatch, procVars
  <2>5. CASE FlushRuns \/ FlushRunsFails \/ SkipRuns
    BY <1>3, <2>5 DEF FlushRuns, FlushRunsFails, SkipRuns, EndCycle
  <2>6. CASE Shutdown \/ CloseDatabase \/ Reopen
    BY <2>6 DEF Shutdown, CloseDatabase, Reopen
  <2>7. QED
    BY <1>1, <1>2, <2>1, <2>2, <2>3, <2>4, <2>5, <2>6 DEF Next, Record, WriterStep
<1>4. CASE phase = "down"
  <2>1. wpc = "idle"
    BY <1>4 DEF DownInv
  <2>2. ASSUME NEW t \in Recorder, NEW r \in Run, TakeSequence(t, r) PROVE FALSE
    BY <1>4, <2>2 DEF TakeSequence, Alive
  <2>3. ASSUME NEW t \in Recorder, EncodeFails(t) \/ StoreRecord(t) PROVE FALSE
    BY <1>4, <2>3 DEF EncodeFails, StoreRecord, Alive
  <2>4. CASE Link \/ BeginTick \/ BeginFlush \/ Shutdown \/ CloseDatabase \/ Reopen
    BY <1>4, <2>4 DEF Link, BeginTick, BeginFlush, Shutdown, CloseDatabase, Reopen, Alive
  <2>5. CASE WriterStep
    BY <2>1, <2>5 DEF WriterStep, DrainEdges, CommitBatch, BusyBatch, FatalBatch,
       FlushRuns, FlushRunsFails, SkipRuns
  <2>6. QED
    BY <1>1, <1>2, <2>2, <2>3, <2>4, <2>5 DEF Next, Record
<1>5. QED
  BY <1>3, <1>4

TypeInv == TypeOK /\ DownInv

LEMMA TypeInvariant == Spec => []TypeInv
<1>1. Init => TypeInv
  BY InitType DEF TypeInv
<1>2. TypeInv /\ [Next]_vars => TypeInv'
  BY NextType, NextDown DEF TypeInv
<1>3. QED
  BY <1>1, <1>2, PTL DEF Spec

(* Every variable of the store keeps its type, through crashes and the     *)
(* sessions that follow them.                                              *)
THEOREM TypeCorrect == Spec => []TypeOK
<1>1. TypeInv => TypeOK
  BY DEF TypeInv
<1>2. QED
  BY <1>1, TypeInvariant, PTL

-----------------------------------------------------------------------------
(* The line of rows: from the oldest durable row to the youngest live one *)

(* What holds of a row and of every row behind it in the line.             *)
Precedes ==
  {p \in Event \X Event :
     /\ ~Same(p[1], p[2])
     /\ p[1].run = p[2].run /\ p[1].by = p[2].by => p[1].seq < p[2].seq}

Before(S, T) == S \X T \subseteq Precedes

Rows == Range(events) \cup Range(batch) \cup Range(retry) \cup Range(live)

(* Each part of the line is in order, and so are the parts.                *)
OrderInv ==
  /\ Increasing(events, Precedes) /\ Increasing(batch, Precedes)
  /\ Increasing(retry, Precedes) /\ Increasing(live, Precedes)
  /\ Before(Range(events), Range(batch) \cup Range(retry) \cup Range(live))
  /\ Before(Range(batch), Range(retry) \cup Range(live))
  /\ Before(Range(retry), Range(live))

(* The writer holds a batch only between its drain and its insert.         *)
CycleInv == wpc \notin {"edges", "insert"} => batch = <<>>

(* What a thread is about to record goes to the end of the line.           *)
HeldInv ==
  \A t \in Recorder :
    held[t] # None =>
      /\ held[t].by = t
      /\ Before(Rows, {held[t]})
      /\ \A u \in Recorder : u # t /\ held[u] # None => ~Same(held[t], held[u])

(* Every number that is in use was handed out.                             *)
NumberInv ==
  /\ \A e \in Rows \cup InHand \cup lost : e.seq < nextSeq[e.run]
  /\ \A r \in Run : runSession[r] = 0 => nextSeq[r] = 0

(* The tally counts rows that are nowhere else.                            *)
LostInv ==
  /\ IsFiniteSet(lost) /\ Cardinality(lost) = tally
  /\ Apart(lost, Rows \cup InHand)

(* Every number handed out in this session to an event of a tier is        *)
(* somewhere.                                                              *)
PlaceInv ==
  Alive =>
    \A r \in SessionRuns, k \in 0 .. MaxEvents - 1 :
      k < nextSeq[r] /\ <<r, k>> \notin OffTier =>
        \E e \in InHand \cup Rows \cup lost : e.run = r /\ e.seq = k

LineInv == OrderInv /\ CycleInv /\ HeldInv /\ NumberInv /\ LostInv /\ PlaceInv

LEMMA RangeTypes ==
  ASSUME TypeOK
  PROVE  /\ Range(events) \subseteq Event /\ Range(batch) \subseteq Event
         /\ Range(retry) \subseteq Event /\ Range(live) \subseteq Event
         /\ Rows \subseteq Event /\ InHand \subseteq Event /\ lost \subseteq Event
<1>1. /\ Range(events) \subseteq Event /\ Range(batch) \subseteq Event
      /\ Range(retry) \subseteq Event /\ Range(live) \subseteq Event
  BY RangeOfSeq DEF TypeOK
<1>2. InHand \subseteq Event /\ lost \subseteq Event
  BY DEF InHand, TypeOK
<1>3. QED
  BY <1>1, <1>2 DEF Rows

LEMMA EmptyLine == Increasing(<<>>, Precedes) /\ Range(<<>>) = {}
  BY IncreasingEmpty

(* A drain moves the front of the line into the batch, and no row passes   *)
(* another.                                                                *)
LEMMA DrainOrder ==
  ASSUME TypeOK, OrderInv, batch = <<>>, NEW max \in Nat, Drain(max),
         UNCHANGED events
  PROVE  /\ OrderInv' /\ Rows' = Rows
         /\ Range(batch') \cup Range(retry') \cup Range(live')
              = Range(retry) \cup Range(live)
<1> DEFINE k  == TakenRetries(max)
           l  == TakenLive(max)
           fr == Taken(retry, k)
           lr == Left(retry, k)
           fl == Taken(live, l)
           ll == Left(live, l)
<1>1. /\ fr \in Seq(Event) /\ lr \in Seq(Event) /\ fl \in Seq(Event) /\ ll \in Seq(Event)
      /\ Len(lr) = Len(retry) - k /\ Len(fl) = l
  <2>1. k \in 0 .. Len(retry) /\ l \in 0 .. Len(live)
    BY DrainCounts
  <2>2. retry \in Seq(Event) /\ live \in Seq(Event)
    BY DEF TypeOK
  <2> HIDE DEF k, l
  <2>3. fr \in Seq(Event) /\ lr \in Seq(Event) /\ Len(lr) = Len(retry) - k
    BY <2>1, <2>2, Split
  <2>4. fl \in Seq(Event) /\ ll \in Seq(Event) /\ Len(fl) = l
    BY <2>1, <2>2, Split
  <2>5. QED
    BY <2>3, <2>4
<1>2. /\ Increasing(fr, Precedes) /\ Increasing(lr, Precedes)
      /\ Range(fr) \X Range(lr) \subseteq Precedes
      /\ Range(retry) = Range(fr) \cup Range(lr)
  BY DrainCounts, IncreasingSplit, SplitRange DEF TypeOK, OrderInv
<1>3. /\ Increasing(fl, Precedes) /\ Increasing(ll, Precedes)
      /\ Range(fl) \X Range(ll) \subseteq Precedes
      /\ Range(live) = Range(fl) \cup Range(ll)
  BY DrainCounts, IncreasingSplit, SplitRange DEF TypeOK, OrderInv
<1>4. Range(lr) = {} \/ Range(fl) = {}
  <2>1. Len(lr) = 0 \/ Len(fl) = 0
    <3>1. Len(retry) \in Nat /\ (k = Len(retry) \/ l = 0)
      BY DrainCounts, LenProperties DEF TypeOK
    <3> HIDE DEF k, l, lr, fl
    <3>2. QED
      BY <1>1, <3>1
  <2>2. lr = <<>> \/ fl = <<>>
    BY <1>1, <2>1, EmptySeq
  <2>3. QED
    BY <2>2, EmptyLine
<1>5. batch' = fr \o fl /\ retry' = lr /\ live' = ll
  BY DrainParts
<1>6. Range(retry) \X Range(live) \subseteq Precedes
  BY DEF OrderInv, Before
<1> HIDE DEF fr, lr, fl, ll, k, l
<1>7. Range(fr) \X Range(fl) \subseteq Precedes
  BY <1>2, <1>3, <1>6
<1>8. Increasing(batch', Precedes) /\ Range(batch') = Range(fr) \cup Range(fl)
  BY <1>1, <1>2, <1>3, <1>5, <1>7, IncreasingConcat, RangeConcatenation
<1>9. Before(Range(batch'), Range(retry') \cup Range(live'))
  BY <1>2, <1>3, <1>4, <1>5, <1>6, <1>8 DEF Before
<1>10. Before(Range(retry'), Range(live'))
  BY <1>2, <1>3, <1>5, <1>6 DEF Before
<1>11. Range(batch') \cup Range(retry') \cup Range(live') = Range(retry) \cup Range(live)
  BY <1>2, <1>3, <1>5, <1>8
<1>12. Range(batch) = {} /\ events' = events
  BY EmptyLine
<1>13. Before(Range(events'), Range(batch') \cup Range(retry') \cup Range(live'))
  BY <1>11, <1>12 DEF OrderInv, Before
<1>14. Rows' = Rows
  BY <1>11, <1>12 DEF Rows
<1>15. QED
  BY <1>2, <1>3, <1>5, <1>8, <1>9, <1>10, <1>11, <1>12, <1>13, <1>14 DEF OrderInv

LEMMA CommitOrder ==
  ASSUME TypeOK, OrderInv, CommitBatch
  PROVE  OrderInv' /\ Rows' = Rows
<1>1. events' = events \o batch /\ batch' = <<>> /\ retry' = retry /\ live' = live
  BY DEF CommitBatch, bufVars
<1>2. Range(events) \X Range(batch) \subseteq Precedes
  BY DEF OrderInv, Before
<1>3. /\ Increasing(events', Precedes)
      /\ Range(events') = Range(events) \cup Range(batch)
  BY <1>1, <1>2, IncreasingConcat, RangeConcatenation DEF OrderInv, TypeOK
<1>4. Range(batch') = {} /\ Increasing(batch', Precedes)
  BY <1>1, EmptyLine
<1>5. Before(Range(events'), Range(batch') \cup Range(retry') \cup Range(live'))
  BY <1>1, <1>3, <1>4 DEF OrderInv, Before
<1>6. Before(Range(batch'), Range(retry') \cup Range(live'))
  BY <1>4 DEF Before
<1>7. QED
  BY <1>1, <1>3, <1>4, <1>5, <1>6 DEF OrderInv, Rows

LEMMA PrecedesFacts ==
  /\ \A e : <<e, e>> \notin Precedes
  /\ \A e, f : <<e, f>> \in Precedes => ~Same(e, f) /\ ~Same(f, e)
  BY DEF Precedes, Same

(* Rows that are in order are as many as their queue is long.              *)
LEMMA OrderedCount ==
  ASSUME NEW s \in Seq(Event), Increasing(s, Precedes)
  PROVE  IsFiniteSet(Range(s)) /\ Cardinality(Range(s)) = Len(s)
<1>1. Len(s) \in Nat /\ s \in [1 .. Len(s) -> Event] /\ Range(s) = {s[i] : i \in 1 .. Len(s)}
  BY LenProperties, RangeEquality
<1>2. \A i, j \in 1 .. Len(s) : i < j => s[i] # s[j]
  BY PrecedesFacts DEF Increasing
<1>3. \A i, j \in 1 .. Len(s) : s[i] = s[j] => i = j
  BY <1>1, <1>2
<1>4. s \in Bijection(1 .. Len(s), Range(s))
  <2>1. s \in [1 .. Len(s) -> Range(s)]
    BY <1>1
  <2>2. s \in Injection(1 .. Len(s), Range(s))
    BY <1>3, <2>1 DEF Injection, IsInjective
  <2>3. \A e \in Range(s) : \E i \in 1 .. Len(s) : s[i] = e
    BY <1>1
  <2>4. s \in Surjection(1 .. Len(s), Range(s))
    BY <2>1, <2>3 DEF Surjection
  <2>5. QED
    BY <2>2, <2>4 DEF Bijection
<1>5. ExistsBijection(1 .. Len(s), Range(s))
  BY <1>4 DEF ExistsBijection
<1>6. IsFiniteSet(1 .. Len(s)) /\ Cardinality(1 .. Len(s)) = Len(s)
  <2>1. /\ IsFiniteSet(1 .. Len(s))
        /\ Cardinality(1 .. Len(s)) = IF 1 > Len(s) THEN 0 ELSE Len(s) - 1 + 1
    BY <1>1, FS_Interval
  <2>2. QED
    BY <1>1, <2>1
<1>7. QED
  BY <1>5, <1>6, FS_Bijection

(* A row leaves the line where it is shed, and is nowhere in it then.      *)
LEMMA BusyOrder ==
  ASSUME TypeOK, OrderInv, BusyBatch
  PROVE  /\ OrderInv' /\ Rows = Rows' \cup Range(Shed)
         /\ Range(retry') \subseteq Range(batch) \cup Range(retry)
         /\ Apart(Range(Shed), Rows')
         /\ IsFiniteSet(Range(Shed)) /\ Cardinality(Range(Shed)) = Len(Shed)
<1> DEFINE kept == Taken(Requeued, Room)
<1>1. /\ Requeued \in Seq(Event) /\ Room \in 0 .. Len(Requeued) /\ Shed \in Seq(Event)
      /\ retry' = kept
  BY BusyParts
<1>2. batch' = <<>> /\ live' = live /\ events' = events
  BY DEF BusyBatch, dbVars
<1>3. Range(batch) \X Range(retry) \subseteq Precedes
  BY DEF OrderInv, Before
<1>4. /\ Increasing(Requeued, Precedes)
      /\ Range(Requeued) = Range(batch) \cup Range(retry)
  BY <1>3, IncreasingConcat, RangeConcatenation DEF OrderInv, TypeOK, Requeued
<1>5. /\ Increasing(kept, Precedes) /\ Increasing(Shed, Precedes)
      /\ Range(kept) \X Range(Shed) \subseteq Precedes
  BY <1>1, <1>4, IncreasingSplit DEF Shed
<1>6. Range(Requeued) = Range(kept) \cup Range(Shed)
  BY <1>1, SplitRange DEF Shed
<1> HIDE DEF kept
<1>7. Range(batch') = {} /\ Increasing(batch', Precedes)
  BY <1>2, EmptyLine
<1>8. Rows = Rows' \cup Range(Shed)
  BY <1>1, <1>2, <1>4, <1>6, <1>7 DEF Rows
<1>9. Before(Range(events'), Range(batch') \cup Range(retry') \cup Range(live'))
  BY <1>1, <1>2, <1>4, <1>6, <1>7 DEF OrderInv, Before
<1>10. Before(Range(retry'), Range(live'))
  BY <1>1, <1>2, <1>4, <1>6 DEF OrderInv, Before
<1>11. Before(Range(batch'), Range(retry') \cup Range(live'))
  BY <1>7 DEF Before
<1>12. OrderInv'
  BY <1>1, <1>2, <1>5, <1>7, <1>9, <1>10, <1>11 DEF OrderInv
<1>13. Apart(Range(Shed), Rows')
  <2> SUFFICES ASSUME NEW e \in Range(Shed), NEW f \in Rows'
               PROVE  <<e, f>> \in Precedes \/ <<f, e>> \in Precedes
    BY PrecedesFacts DEF Apart
  <2>1. CASE f \in Range(events)
    BY <1>4, <1>6, <2>1 DEF OrderInv, Before
  <2>2. CASE f \in Range(kept)
    BY <1>5, <2>2
  <2>3. CASE f \in Range(live)
    BY <1>4, <1>6, <2>3 DEF OrderInv, Before
  <2>4. QED
    BY <1>1, <1>2, <1>7, <2>1, <2>2, <2>3 DEF Rows
<1>14. QED
  BY <1>1, <1>4, <1>5, <1>6, <1>8, <1>12, <1>13, OrderedCount

LEMMA FatalOrder ==
  ASSUME TypeOK, OrderInv, FatalBatch
  PROVE  /\ OrderInv' /\ Rows = Rows' \cup Range(batch)
         /\ Apart(Range(batch), Rows')
         /\ IsFiniteSet(Range(batch)) /\ Cardinality(Range(batch)) = Len(batch)
<1>1. batch' = <<>> /\ retry' = retry /\ live' = live /\ events' = events
  BY DEF FatalBatch, bufVars, dbVars
<1>2. Range(batch') = {} /\ Increasing(batch', Precedes)
  BY <1>1, EmptyLine
<1>3. OrderInv'
  BY <1>1, <1>2 DEF OrderInv, Before
<1>4. Rows = Rows' \cup Range(batch)
  BY <1>1, <1>2 DEF Rows
<1>5. Apart(Range(batch), Rows')
  <2> SUFFICES ASSUME NEW e \in Range(batch), NEW f \in Rows'
               PROVE  <<e, f>> \in Precedes \/ <<f, e>> \in Precedes
    BY PrecedesFacts DEF Apart
  <2>1. QED
    BY <1>1, <1>2 DEF OrderInv, Before, Rows
<1>6. QED
  BY <1>3, <1>4, <1>5, OrderedCount DEF OrderInv, TypeOK

(* A recorded event joins the end of the line; in a full buffer it is      *)
(* shed itself, or some live row is.                                       *)
LEMMA RecordOrder ==
  ASSUME TypeOK, OrderInv, HeldInv, NEW t \in Recorder, StoreRecord(t)
  PROVE  /\ held[t] \in Event /\ OrderInv'
         /\ Range(live') \subseteq Range(live) \cup {held[t]}
         /\ \/ Rows' = Rows \cup {held[t]} /\ UNCHANGED lossVars
            \/ Rows' = Rows /\ Lose(held[t])
            \/ \E e \in Rows : /\ Rows \cup {held[t]} = Rows' \cup {e}
                               /\ Lose(e) /\ Apart({e}, Rows')
<1> DEFINE new == held[t]
<1>1. new \in Event /\ new # None /\ Before(Rows, {new})
  BY DEF TypeOK, StoreRecord, HeldInv
<1>2. events' = events /\ batch' = batch /\ retry' = retry
  BY DEF StoreRecord, dbVars
<1>3. /\ Range(events) \X {new} \subseteq Precedes /\ Range(batch) \X {new} \subseteq Precedes
      /\ Range(retry) \X {new} \subseteq Precedes /\ Range(live) \X {new} \subseteq Precedes
  BY <1>1 DEF Before, Rows
<1> HIDE DEF new
<1>4. ASSUME live' = Append(live, new), UNCHANGED lossVars
      PROVE  /\ OrderInv' /\ Rows' = Rows \cup {new}
             /\ Range(live') = Range(live) \cup {new}
  <2>1. Increasing(live', Precedes)
    BY <1>1, <1>3, <1>4, IncreasingAppend DEF OrderInv, TypeOK
  <2>2. Range(live') = Range(live) \cup {new}
    BY <1>1, <1>4, RangeAppend DEF TypeOK
  <2>3. QED
    BY <1>2, <1>3, <2>1, <2>2 DEF OrderInv, Before, Rows
<1>5. ASSUME Lose(new), UNCHANGED live
      PROVE  OrderInv' /\ Rows' = Rows
  BY <1>2, <1>5 DEF OrderInv, Rows
<1>6. ASSUME NEW i \in 1 .. Len(live), Lose(live[i]),
             live' = Append(RemoveAt(live, i), new)
      PROVE  /\ OrderInv' /\ live[i] \in Rows /\ Apart({live[i]}, Rows')
             /\ Range(live') \subseteq Range(live) \cup {new}
             /\ Rows \cup {new} = Rows' \cup {live[i]}
  <2> DEFINE shorter == RemoveAt(live, i)
             out == live[i]
  <2>1. /\ shorter \in Seq(Event) /\ Range(live) = Range(shorter) \cup {out}
        /\ Increasing(shorter, Precedes)
        /\ \A x \in Range(shorter) : <<x, out>> \in Precedes \/ <<out, x>> \in Precedes
    BY Removed DEF OrderInv, TypeOK
  <2>2. live' = Append(shorter, new)
    BY <1>6
  <2> HIDE DEF shorter, out
  <2>3. Range(live') = Range(shorter) \cup {new}
    BY <1>1, <2>1, <2>2, RangeAppend
  <2>4. Increasing(live', Precedes)
    <3>1. \A x \in Range(shorter) : <<x, new>> \in Precedes
      BY <1>3, <2>1
    <3>2. QED
      BY <1>1, <2>1, <2>2, <3>1, IncreasingAppend
  <2>5. OrderInv'
    BY <1>2, <1>3, <2>1, <2>3, <2>4 DEF OrderInv, Before
  <2>6. Apart({out}, Rows')
    <3> SUFFICES ASSUME NEW f \in Rows'
                 PROVE  <<out, f>> \in Precedes \/ <<f, out>> \in Precedes
      BY PrecedesFacts DEF Apart
    <3>1. out \in Range(live)
      BY <2>1
    <3>2. CASE f \in Range(events) \cup Range(batch) \cup Range(retry)
      BY <3>1, <3>2 DEF OrderInv, Before
    <3>3. CASE f \in Range(shorter)
      BY <2>1, <3>3
    <3>4. CASE f = new
      BY <1>3, <3>1, <3>4
    <3>5. QED
      BY <1>2, <2>3, <3>2, <3>3, <3>4 DEF Rows
  <2>7. out \in Rows /\ Rows \cup {new} = Rows' \cup {out}
    BY <1>2, <2>1, <2>3 DEF Rows
  <2>8. QED
    BY <2>1, <2>3, <2>5, <2>6, <2>7 DEF out
<1>7. \/ live' = Append(live, new) /\ UNCHANGED lossVars
      \/ Lose(new) /\ UNCHANGED live
      \/ \E i \in 1 .. Len(live) : Lose(live[i]) /\ live' = Append(RemoveAt(live, i), new)
  BY DEF StoreRecord, new
<1>8. CASE \E i \in 1 .. Len(live) :
             Lose(live[i]) /\ live' = Append(RemoveAt(live, i), new)
  BY <1>1, <1>6, <1>8 DEF new
<1>9. Range(live') \subseteq Range(live) \cup {new}
  <2>1. CASE UNCHANGED live
    BY <2>1
  <2>2. QED
    BY <1>4, <1>6, <1>7, <2>1
<1>10. QED
  BY <1>1, <1>4, <1>5, <1>7, <1>8, <1>9 DEF new

LEMMA InitLine == Init => LineInv
<1> SUFFICES ASSUME Init PROVE LineInv
  OBVIOUS
<1>1. /\ events = <<>> /\ batch = <<>> /\ retry = <<>> /\ live = <<>>
      /\ lost = {} /\ tally = 0 /\ \A t \in Recorder : held[t] = None
      /\ \A r \in Run : runSession[r] = 0 /\ nextSeq[r] = 0
  BY DEF Init
<1>2. Rows = {} /\ InHand = {}
  BY <1>1, EmptyLine DEF Rows, InHand
<1>3. OrderInv
  BY <1>1, EmptyLine DEF OrderInv, Before
<1>4. CycleInv /\ HeldInv
  BY <1>1 DEF CycleInv, HeldInv
<1>5. NumberInv
  BY <1>1, <1>2 DEF NumberInv
<1>6. LostInv
  BY <1>1, <1>2, FS_EmptySet DEF LostInv, Apart
<1>7. PlaceInv
  BY <1>1 DEF PlaceInv, SessionRuns
<1>8. QED
  BY <1>3, <1>4, <1>5, <1>6, <1>7 DEF LineInv

(* Taking a number: the new event is in hand, behind every row.            *)
LEMMA TakeLine ==
  ASSUME TypeInv, LineInv, NEW t \in Recorder, NEW r \in Run, TakeSequence(t, r)
  PROVE  LineInv'
<1> DEFINE new == [run |-> r, seq |-> nextSeq[r], by |-> t]
<1>1. TypeOK /\ TypeOK'
  BY NextType DEF TypeInv, Next, Record
<1>2. /\ new \in Event /\ nextSeq[r] \in 0 .. MaxEvents - 1
      /\ held' = [held EXCEPT ![t] = new] /\ held[t] = None
      /\ nextSeq' = [nextSeq EXCEPT ![r] = @ + 1]
  <2>1. nextSeq[r] \in 0 .. MaxEvents - 1
    BY <1>1, NumbersLeft DEF TakeSequence, TypeOK
  <2>2. QED
    BY <2>1 DEF TakeSequence, Event
<1>3. UNCHANGED <<events, batch, retry, live, lost, tally, wpc, session, phase>>
  BY DEF TakeSequence, bufVars, lossVars, dbVars
<1>4. Rows' = Rows
  BY <1>3 DEF Rows
<1>5. new # None
  BY <1>2, NoneIsNoEvent
<1> DEFINE e0 == new
<1>6. e0.run = r /\ e0.seq = nextSeq[r] /\ e0.by = t /\ e0 \in Event /\ e0 # None
  BY <1>2, <1>5
<1>7. held' = [held EXCEPT ![t] = e0]
  BY <1>2
<1> HIDE DEF e0, new
<1>8. InHand' = InHand \cup {e0}
  <2>1. /\ held'[t] = e0 /\ held[t] = None
        /\ \A u \in Recorder : u # t => held'[u] = held[u]
    BY <1>1, <1>2, <1>7 DEF TypeOK
  <2>2. InHand' \subseteq InHand \cup {e0}
    BY <2>1 DEF InHand
  <2>3. InHand \subseteq InHand'
    BY <2>1 DEF InHand
  <2>4. e0 \in InHand'
    BY <1>6, <2>1 DEF InHand
  <2>5. QED
    BY <2>2, <2>3, <2>4
<1>9. /\ \A e \in Rows \cup InHand \cup lost : e \in Event /\ e.seq < nextSeq[e.run]
      /\ \A e \in Rows \cup InHand \cup lost : ~Same(e, e0) /\ ~Same(e0, e)
  <2>1. \A e \in Rows \cup InHand \cup lost : e \in Event /\ e.seq < nextSeq[e.run]
    BY <1>1, RangeTypes DEF LineInv, NumberInv
  <2>2. \A e \in Event : e.seq \in Nat /\ e.run \in Run
    BY DEF Event
  <2>3. ASSUME NEW e \in Rows \cup InHand \cup lost
        PROVE  ~Same(e, e0) /\ ~Same(e0, e)
    <3>1. e.run = r => e.seq < nextSeq[r]
      BY <2>1
    <3>2. e.seq \in Nat /\ nextSeq[r] \in Nat
      BY <1>2, <2>1, <2>2, StoreAssumption
    <3>3. e.run = r => e.seq # e0.seq
      BY <1>6, <3>1, <3>2
    <3>4. QED
      BY <1>6, <3>3 DEF Same
  <2>4. QED
    BY <2>1, <2>3
<1>10. OrderInv' /\ CycleInv'
  BY <1>3 DEF LineInv, OrderInv, CycleInv
<1>11. HeldInv'
  <2> SUFFICES ASSUME NEW u \in Recorder, held'[u] # None
               PROVE  /\ held'[u].by = u
                      /\ Before(Rows, {held'[u]})
                      /\ \A v \in Recorder :
                           v # u /\ held'[v] # None => ~Same(held'[u], held'[v])
    BY <1>4 DEF HeldInv
  <2>1. \A v \in Recorder : v # t => held'[v] = held[v]
    BY <1>1, <1>7 DEF TypeOK
  <2>2. held'[t] = e0
    BY <1>1, <1>7 DEF TypeOK
  <2>3. \A v \in Recorder : v # t /\ held[v] # None => held[v] \in InHand
    BY DEF InHand
  <2>4. CASE u = t
    <3>1. Before(Rows, {e0})
      <4> SUFFICES ASSUME NEW e \in Rows PROVE <<e, e0>> \in Precedes
        BY DEF Before
      <4>1. e \in Event /\ e.seq < nextSeq[e.run] /\ ~Same(e, e0)
        BY <1>9
      <4>2. QED
        BY <1>6, <4>1 DEF Precedes
    <3>2. QED
      BY <1>6, <1>9, <2>1, <2>2, <2>3, <2>4, <3>1
  <2>5. CASE u # t
    <3>1. held[u] # None /\ held'[u] = held[u]
      BY <2>1, <2>5
    <3>2. /\ held[u].by = u /\ Before(Rows, {held[u]})
          /\ \A v \in Recorder : v # u /\ held[v] # None => ~Same(held[u], held[v])
      BY <3>1 DEF LineInv, HeldInv
    <3>3. ~Same(held[u], e0)
      BY <1>9, <2>3, <2>5, <3>1
    <3>4. QED
      BY <2>1, <2>2, <3>1, <3>2, <3>3
  <2>6. QED
    BY <2>4, <2>5
<1>12. NumberInv'
  <2>1. ASSUME NEW q \in Run
        PROVE  nextSeq[q] \in Nat /\ nextSeq'[q] \in Nat /\ nextSeq[q] <= nextSeq'[q]
    <3>1. nextSeq[q] \in Nat
      BY <1>1, StoreAssumption DEF TypeOK
    <3>2. nextSeq'[q] = nextSeq[q] \/ nextSeq'[q] = nextSeq[q] + 1
      BY <1>1, <1>2 DEF TypeOK
    <3>3. QED
      BY <3>1, <3>2
  <2>2. nextSeq'[r] = nextSeq[r] + 1
    BY <1>1, <1>2 DEF TypeOK
  <2>3. \A e \in Event : e.seq \in Nat /\ e.run \in Run
    BY DEF Event
  <2>4. ASSUME NEW e \in Rows \cup InHand \cup lost PROVE e.seq < nextSeq'[e.run]
    BY <1>9, <2>1, <2>3
  <2>5. e0.seq < nextSeq'[e0.run]
    BY <1>6, <2>1, <2>2
  <2>6. ASSUME NEW q \in Run, runSession'[q] = 0 PROVE nextSeq'[q] = 0
    <3>1. runSession' = [runSession EXCEPT ![r] = session] /\ session # 0
      BY <1>1 DEF TakeSequence, TypeOK
    <3>2. q # r /\ runSession[q] = 0
      BY <1>1, <2>6, <3>1 DEF TypeOK
    <3>3. QED
      BY <1>1, <1>2, <3>2 DEF LineInv, NumberInv, TypeOK
  <2>7. QED
    BY <1>3, <1>4, <1>8, <2>4, <2>5, <2>6 DEF NumberInv
<1>13. LostInv'
  BY <1>3, <1>4, <1>8, <1>9 DEF LineInv, LostInv, Apart
<1>14. PlaceInv'
  <2> SUFFICES ASSUME Alive', NEW q \in SessionRuns', NEW k \in 0 .. MaxEvents - 1,
                      k < nextSeq'[q], <<q, k>> \notin OffTier
               PROVE  \E e \in InHand' \cup Rows' \cup lost' : e.run = q /\ e.seq = k
    BY DEF PlaceInv
  <2>1. q \in Run /\ Alive
    BY DEF SessionRuns, TakeSequence
  <2>2. CASE q = r /\ k = nextSeq[r]
    BY <1>6, <1>8, <2>2
  <2>3. CASE ~(q = r /\ k = nextSeq[r])
    <3>1. k < nextSeq[q]
      BY <1>1, <1>2, <2>1, <2>3, SMTT(60), ZenonT(30) DEF TypeOK
    <3>2. nextSeq[q] # 0
      BY <3>1
    <3>3. runSession[q] # 0
      BY <2>1, <3>2 DEF LineInv, NumberInv
    <3>4. runSession[q] = session
      <4>1. CASE q = r
        BY <3>3, <4>1 DEF TakeSequence
      <4>2. CASE q # r
        BY <1>1, <1>3, <2>1, <4>2 DEF SessionRuns, TakeSequence, TypeOK
      <4>3. QED
        BY <4>1, <4>2
    <3>5. q \in SessionRuns
      BY <2>1, <3>4 DEF SessionRuns
    <3>6. QED
      BY <1>3, <1>4, <1>8, <2>1, <3>1, <3>5 DEF LineInv, PlaceInv
  <2>4. QED
    BY <2>2, <2>3
<1>15. QED
  BY <1>10, <1>11, <1>12, <1>13, <1>14 DEF LineInv

(* Steps that only move rows along the line.                               *)
LEMMA MovesLine ==
  ASSUME LineInv, OrderInv', CycleInv', Rows' = Rows, Alive' => Alive,
         UNCHANGED <<session, runSession, nextSeq, held, tally, lost>>
  PROVE  LineInv'
<1>1. InHand' = InHand /\ SessionRuns' = SessionRuns
  BY DEF InHand, SessionRuns
<1>2. HeldInv'
  BY DEF LineInv, HeldInv
<1>3. NumberInv' /\ LostInv' /\ PlaceInv'
  BY <1>1 DEF LineInv, NumberInv, LostInv, PlaceInv
<1>4. QED
  BY <1>2, <1>3 DEF LineInv

(* A row in the line is no event in hand and no lost one.                  *)
LEMMA RowsApart ==
  ASSUME LineInv, NEW e \in Rows
  PROVE  /\ e \notin lost
         /\ \A f \in InHand : ~Same(e, f) /\ ~Same(f, e)
<1>1. e \notin lost
  BY DEF LineInv, LostInv, Apart, Same
<1>2. ASSUME NEW f \in InHand PROVE ~Same(e, f) /\ ~Same(f, e)
  <2>1. PICK t \in Recorder : held[t] = f /\ held[t] # None
    BY DEF InHand
  <2>2. <<e, f>> \in Precedes
    BY <2>1 DEF LineInv, HeldInv, Before
  <2>3. QED
    BY <2>2, PrecedesFacts
<1>3. QED
  BY <1>1, <1>2

(* Rows X leave the line, and those of them in C are counted.              *)
LEMMA LosesRows ==
  ASSUME TypeOK, LineInv, NEW X, NEW C, C \subseteq X, IsFiniteSet(C),
         Rows = Rows' \cup X, Apart(X, Rows'),
         lost' = lost \cup C, tally' = tally + Cardinality(C)
  PROVE  /\ IsFiniteSet(lost') /\ Cardinality(lost') = tally'
         /\ Apart(lost', Rows' \cup InHand)
<1>1. lost \cap C = {}
  BY RowsApart
<1>2. IsFiniteSet(lost) /\ Cardinality(lost) = tally
  BY DEF LineInv, LostInv
<1>3. IsFiniteSet(lost') /\ Cardinality(lost') = tally'
  <2>1. /\ IsFiniteSet(lost \cup C)
        /\ Cardinality(lost \cup C)
             = Cardinality(lost) + Cardinality(C) - Cardinality(lost \cap C)
    BY <1>2, FS_Union
  <2>2. Cardinality(lost \cap C) = 0
    BY <1>1, FS_EmptySet
  <2>3. Cardinality(C) \in Nat /\ tally \in Nat
    BY FS_CardinalityType DEF TypeOK
  <2>4. QED
    BY <1>2, <2>1, <2>2, <2>3
<1>4. Apart(lost, Rows' \cup InHand)
  BY DEF LineInv, LostInv, Apart
<1>5. Apart(C, Rows' \cup InHand)
  BY RowsApart DEF Apart
<1>6. QED
  BY <1>3, <1>4, <1>5 DEF Apart

(* Steps of the writer that lose rows, at least the rows of a tier counted. *)
LEMMA ShedsLine ==
  ASSUME TypeOK, LineInv, NEW X, NEW C, C \subseteq X, IsFiniteSet(C),
         \A e \in X \ C : ~InTier(e),
         Rows = Rows' \cup X, Apart(X, Rows'),
         lost' = lost \cup C, tally' = tally + Cardinality(C),
         OrderInv', CycleInv', Alive' => Alive,
         UNCHANGED <<session, runSession, nextSeq, held>>
  PROVE  LineInv'
<1>1. InHand' = InHand /\ SessionRuns' = SessionRuns
  BY DEF InHand, SessionRuns
<1>2. HeldInv'
  BY DEF LineInv, HeldInv, Before
<1>3. LostInv'
  BY <1>1, LosesRows DEF LostInv
<1>4. NumberInv'
  BY <1>1 DEF LineInv, NumberInv
<1>5. PlaceInv'
  <2> SUFFICES ASSUME Alive', NEW r \in SessionRuns, NEW k \in 0 .. MaxEvents - 1,
                      k < nextSeq[r], <<r, k>> \notin OffTier
               PROVE  \E e \in InHand \cup Rows' \cup lost' : e.run = r /\ e.seq = k
    BY <1>1 DEF PlaceInv
  <2>1. PICK e \in InHand \cup Rows \cup lost : e.run = r /\ e.seq = k
    BY DEF LineInv, PlaceInv
  <2>2. InTier(e)
    BY <2>1 DEF InTier
  <2>3. QED
    BY <2>1, <2>2
<1>6. QED
  BY <1>2, <1>3, <1>4, <1>5 DEF LineInv

(* An event leaves the hand of its thread: the others keep theirs.         *)
LEMMA HandLess ==
  ASSUME TypeOK, LineInv, NEW t \in Recorder, held[t] # None,
         held' = [held EXCEPT ![t] = None]
  PROVE  /\ InHand = InHand' \cup {held[t]}
         /\ Apart({held[t]}, InHand') /\ Apart(InHand', {held[t]})
         /\ held[t] \notin lost
         /\ \A u \in Recorder : held'[u] # None => u # t /\ held'[u] = held[u]
<1>1. held'[t] = None /\ \A u \in Recorder : u # t => held'[u] = held[u]
  BY DEF TypeOK
<1>2. \A u \in Recorder : held'[u] # None => u # t /\ held'[u] = held[u]
  BY <1>1
<1>3. InHand = InHand' \cup {held[t]}
  <2>1. InHand \subseteq InHand' \cup {held[t]}
    BY <1>1 DEF InHand
  <2>2. InHand' \subseteq InHand
    BY <1>1 DEF InHand
  <2>3. QED
    BY <2>1, <2>2 DEF InHand
<1>4. \A f \in InHand' : ~Same(held[t], f) /\ ~Same(f, held[t])
  <2> SUFFICES ASSUME NEW u \in Recorder, held'[u] # None
               PROVE  ~Same(held[t], held'[u]) /\ ~Same(held'[u], held[t])
    BY DEF InHand
  <2>1. u # t /\ held'[u] = held[u]
    BY <1>2
  <2>2. QED
    BY <2>1 DEF LineInv, HeldInv
<1>5. held[t] \notin lost
  BY <1>3 DEF LineInv, LostInv, Apart, Same
<1>6. QED
  BY <1>2, <1>3, <1>4, <1>5 DEF Apart

(* An event of a tier that does not encode is counted.                     *)
LEMMA EncodeLine ==
  ASSUME TypeOK, LineInv, NEW t \in Recorder, EncodeFails(t)
  PROVE  LineInv'
<1> DEFINE e0 == held[t]
           counted == {e \in {e0} : InTier(e)}
<1>1. /\ e0 # None /\ held' = [held EXCEPT ![t] = None] /\ TallyRecord(<<e0>>)
      /\ UNCHANGED <<procVars, nextSeq, bufVars, wpc, batch, dbVars>>
  BY DEF EncodeFails
<1>2. /\ InHand = InHand' \cup {e0}
      /\ Apart({e0}, InHand') /\ Apart(InHand', {e0}) /\ e0 \notin lost
      /\ \A u \in Recorder : held'[u] # None => u # t /\ held'[u] = held[u]
  BY <1>1, HandLess
<1>3. /\ lost' = lost \cup counted /\ IsFiniteSet(counted)
      /\ tally' = tally + Cardinality(counted)
  <2>1. e0 \in Event
    BY <1>1 DEF TypeOK
  <2>2. <<e0>> \in Seq(Event) /\ Len(<<e0>>) = 1 /\ Range(<<e0>>) = {e0}
    BY <2>1, RangeSingle
  <2>3. \A i, j \in 1 .. Len(<<e0>>) : i = j
    BY <2>2
  <2> HIDE DEF e0
  <2>4. QED
    BY <1>1, <2>2, <2>3, TallyParts
<1>4. counted \subseteq {e0} /\ (InTier(e0) => e0 \in counted)
  OBVIOUS
<1> HIDE DEF e0, counted
<1>5. Rows' = Rows
  BY <1>1 DEF Rows, bufVars, dbVars
<1>6. OrderInv' /\ CycleInv'
  BY <1>1 DEF LineInv, OrderInv, CycleInv, bufVars, dbVars
<1>7. HeldInv'
  BY <1>2, <1>5 DEF LineInv, HeldInv
<1>8. LostInv'
  <2>1. IsFiniteSet(lost') /\ Cardinality(lost') = tally'
    <3>1. lost \cap counted = {}
      BY <1>2, <1>4
    <3>2. IsFiniteSet(lost) /\ Cardinality(lost) = tally /\ Cardinality(lost) \in Nat
      BY FS_CardinalityType DEF LineInv, LostInv
    <3>3. Cardinality(lost \cap counted) = 0
      BY <3>1, FS_EmptySet
    <3>4. Cardinality(counted) \in Nat
      BY <1>3, FS_CardinalityType
    <3>5. /\ IsFiniteSet(lost \cup counted)
          /\ Cardinality(lost \cup counted)
               = Cardinality(lost) + Cardinality(counted) - Cardinality(lost \cap counted)
      BY <1>3, <3>2, FS_Union
    <3>6. QED
      BY <1>3, <3>2, <3>3, <3>4, <3>5
  <2>2. Apart({e0}, Rows)
    BY <1>2, RowsApart DEF Apart
  <2>3. Apart(lost, Rows \cup InHand)
    BY DEF LineInv, LostInv
  <2>4. QED
    BY <1>2, <1>3, <1>4, <1>5, <2>1, <2>2, <2>3 DEF LostInv, Apart
<1>9. NumberInv'
  BY <1>1, <1>2, <1>3, <1>4, <1>5 DEF LineInv, NumberInv, procVars
<1>10. PlaceInv'
  <2> SUFFICES ASSUME Alive, NEW r \in SessionRuns, NEW k \in 0 .. MaxEvents - 1,
                      k < nextSeq[r], <<r, k>> \notin OffTier
               PROVE  \E e \in InHand' \cup Rows \cup lost' : e.run = r /\ e.seq = k
    BY <1>1, <1>5 DEF PlaceInv, SessionRuns, Alive, procVars
  <2>1. PICK e \in InHand \cup Rows \cup lost : e.run = r /\ e.seq = k
    BY DEF LineInv, PlaceInv
  <2>2. InTier(e)
    BY <2>1 DEF InTier
  <2>3. QED
    BY <1>2, <1>3, <1>4, <2>1, <2>2
<1>11. QED
  BY <1>6, <1>7, <1>8, <1>9, <1>10 DEF LineInv

(* A recorded event joins the line or is counted, or another one is.       *)
LEMMA RecordLine ==
  ASSUME TypeOK, LineInv, NEW t \in Recorder, StoreRecord(t)
  PROVE  LineInv'
<1> DEFINE e0 == held[t]
<1>1. /\ e0 # None /\ held' = [held EXCEPT ![t] = None]
      /\ UNCHANGED <<procVars, nextSeq, wpc, batch>>
  BY DEF StoreRecord
<1>2. /\ InHand = InHand' \cup {e0}
      /\ Apart({e0}, InHand') /\ Apart(InHand', {e0}) /\ e0 \notin lost
      /\ \A u \in Recorder : held'[u] # None => u # t /\ held'[u] = held[u]
  BY <1>1, HandLess
<1>3. /\ e0 \in Event /\ OrderInv'
      /\ \/ Rows' = Rows \cup {e0} /\ UNCHANGED lossVars
         \/ Rows' = Rows /\ Lose(e0)
         \/ \E e \in Rows : /\ Rows \cup {e0} = Rows' \cup {e}
                            /\ Lose(e) /\ Apart({e}, Rows')
  BY RecordOrder DEF LineInv
<1>4. e0.by = t
  BY <1>1 DEF LineInv, HeldInv
<1> HIDE DEF e0
<1>5. CycleInv'
  BY <1>1 DEF LineInv, CycleInv
<1>6. Rows' \subseteq Rows \cup {e0}
  BY <1>3
<1>7. HeldInv'
  <2> SUFFICES ASSUME NEW u \in Recorder, held'[u] # None
               PROVE  /\ held'[u].by = u
                      /\ Before(Rows', {held'[u]})
                      /\ \A v \in Recorder :
                           v # u /\ held'[v] # None => ~Same(held'[u], held'[v])
    BY DEF HeldInv
  <2>1. u # t /\ held'[u] = held[u] /\ held[u] # None
    BY <1>2
  <2>2. /\ held[u].by = u /\ Before(Rows, {held[u]})
        /\ \A v \in Recorder : v # u /\ held[v] # None => ~Same(held[u], held[v])
    BY <2>1 DEF LineInv, HeldInv
  <2>3. <<e0, held[u]>> \in Precedes
    <3>1. held[u] \in InHand' /\ held[u] \in Event
      BY <2>1 DEF InHand, TypeOK
    <3>2. ~Same(e0, held[u])
      BY <1>2, <3>1 DEF Apart
    <3>3. e0.by # held[u].by
      BY <1>4, <2>1, <2>2
    <3>4. QED
      BY <1>3, <3>1, <3>2, <3>3 DEF Precedes
  <2>4. Before(Rows', {held[u]})
    BY <1>6, <2>2, <2>3 DEF Before
  <2>5. QED
    BY <1>2, <2>1, <2>2, <2>4
<1>8. Apart({e0}, Rows) /\ Apart(lost, Rows \cup InHand)
  BY <1>2, RowsApart DEF Apart, LineInv, LostInv
<1>9. IsFiniteSet(lost) /\ Cardinality(lost) = tally
  BY DEF LineInv, LostInv
<1>10. CASE Rows' = Rows \cup {e0} /\ UNCHANGED lossVars
  <2>1. LostInv'
    BY <1>2, <1>8, <1>9, <1>10 DEF LostInv, Apart, lossVars
  <2>2. NumberInv'
    BY <1>1, <1>2, <1>10 DEF LineInv, NumberInv, procVars, lossVars
  <2>3. PlaceInv'
    BY <1>1, <1>2, <1>10 DEF LineInv, PlaceInv, SessionRuns, Alive, procVars, lossVars
  <2>4. QED
    BY <1>3, <1>5, <1>7, <2>1, <2>2, <2>3 DEF LineInv
<1>11. ASSUME NEW e, e = e0 \/ e \in Rows, Lose(e), Rows \cup {e0} = Rows' \cup {e},
              Apart({e}, Rows')
       PROVE  LineInv'
  <2>1. e \notin lost /\ lost' = lost \cup {e} /\ tally' = tally + 1
    BY <1>2, <1>11, RowsApart DEF Lose
  <2>2. IsFiniteSet(lost') /\ Cardinality(lost') = tally'
    BY <1>9, <2>1, FS_AddElement
  <2>3. Apart({e}, InHand')
    BY <1>2, <1>11, RowsApart DEF Apart
  <2>4. LostInv'
    BY <1>2, <1>6, <1>8, <1>11, <2>1, <2>2, <2>3 DEF LostInv, Apart
  <2>5. NumberInv'
    BY <1>1, <1>2, <1>6, <1>11, <2>1 DEF LineInv, NumberInv, procVars
  <2>6. PlaceInv'
    BY <1>1, <1>2, <1>11, <2>1 DEF LineInv, PlaceInv, SessionRuns, Alive, procVars
  <2>7. QED
    BY <1>3, <1>5, <1>7, <2>4, <2>5, <2>6 DEF LineInv
<1>12. CASE Rows' = Rows /\ Lose(e0)
  BY <1>8, <1>11, <1>12
<1>13. CASE \E e \in Rows : /\ Rows \cup {e0} = Rows' \cup {e}
                            /\ Lose(e) /\ Apart({e}, Rows')
  BY <1>11, <1>13
<1>14. QED
  BY <1>3, <1>10, <1>12, <1>13

(* A crash leaves the durable rows, in their order.                        *)
LEMMA CrashLine ==
  ASSUME TypeOK, LineInv, Crash
  PROVE  LineInv'
<1>1. /\ phase' = "down" /\ held' = [t \in Recorder |-> None]
      /\ retry' = <<>> /\ live' = <<>> /\ batch' = <<>> /\ events' = events
      /\ tally' = 0 /\ lost' = {} /\ nextSeq' = nextSeq /\ runSession' = runSession
  BY DEF Crash, dbVars
<1>2. Rows' = Range(events) /\ InHand' = {}
  BY <1>1, EmptyLine DEF Rows, InHand
<1>3. OrderInv'
  BY <1>1, EmptyLine DEF LineInv, OrderInv, Before
<1>4. CycleInv' /\ HeldInv'
  BY <1>1 DEF CycleInv, HeldInv
<1>5. NumberInv'
  BY <1>1, <1>2 DEF LineInv, NumberInv, Rows
<1>6. LostInv'
  BY <1>1, <1>2, FS_EmptySet DEF LostInv, Apart
<1>7. PlaceInv'
  BY <1>1 DEF PlaceInv, Alive
<1>8. QED
  BY <1>3, <1>4, <1>5, <1>6, <1>7 DEF LineInv

-----------------------------------------------------------------------------
(* What belongs to the session of the process *)

(* No run is of a later session, and what is in memory is of this one.     *)
Memory == InHand \cup Range(batch) \cup Range(retry) \cup Range(live) \cup goal

SessionInv ==
  /\ \A r \in Run : runSession[r] <= session
  /\ Alive => \A e \in Memory : e.run \in SessionRuns

(* A process that opens the file finds no run of its own yet.              *)
LEMMA ReopenLine ==
  ASSUME TypeOK, DownInv, LineInv, SessionInv, Reopen
  PROVE  LineInv' /\ SessionRuns' = {}
<1>1. /\ session' = session + 1
      /\ UNCHANGED <<runSession, nextSeq, held, bufVars, lossVars, wpc, batch, events>>
  BY DEF Reopen
<1>2. SessionRuns' = {}
  BY <1>1 DEF SessionRuns, SessionInv, TypeOK
<1>3. Rows' = Rows /\ InHand' = InHand
  BY <1>1 DEF Rows, InHand, bufVars
<1>4. OrderInv' /\ CycleInv' /\ HeldInv'
  BY <1>1, <1>3 DEF LineInv, OrderInv, CycleInv, HeldInv, bufVars
<1>5. NumberInv' /\ LostInv'
  BY <1>1, <1>3 DEF LineInv, NumberInv, LostInv, lossVars
<1>6. PlaceInv'
  BY <1>2 DEF PlaceInv
<1>7. QED
  BY <1>2, <1>4, <1>5, <1>6 DEF LineInv

LEMMA SessionKept ==
  ASSUME SessionInv, UNCHANGED <<session, runSession>>, Alive' => Alive,
         Memory' \subseteq Memory
  PROVE  SessionInv'
  BY DEF SessionInv, SessionRuns

LEMMA NextSession ==
  ASSUME TypeInv, LineInv, SessionInv, [Next]_vars
  PROVE  SessionInv'
<1>1. TypeOK /\ DownInv /\ TypeOK'
  BY NextType DEF TypeInv
<1>2. ASSUME NEW t \in Recorder, NEW r \in Run, TakeSequence(t, r) PROVE SessionInv'
  <2>1. /\ runSession' = [runSession EXCEPT ![r] = session] /\ session' = session
        /\ phase' = phase
    BY <1>2 DEF TakeSequence
  <2>2. SessionRuns' = SessionRuns \cup {r}
    BY <1>1, <2>1 DEF SessionRuns, TypeOK
  <2>3. \A e \in Memory' : e \in Memory \/ e.run = r
    BY <1>1, <1>2 DEF Memory, InHand, TakeSequence, bufVars, flushVars, TypeOK
  <2>4. \A q \in Run : runSession'[q] <= session'
    BY <1>1, <2>1 DEF SessionInv, TypeOK
  <2>5. QED
    BY <2>1, <2>2, <2>3, <2>4 DEF SessionInv, Alive
<1>3. ASSUME NEW t \in Recorder, EncodeFails(t) PROVE SessionInv'
  <2>1. Memory' \subseteq Memory
    BY <1>1, <1>3 DEF Memory, InHand, EncodeFails, bufVars, flushVars, TypeOK
  <2>2. QED
    BY <1>3, <2>1, SessionKept DEF EncodeFails, procVars, Alive
<1>4. ASSUME NEW t \in Recorder, StoreRecord(t) PROVE SessionInv'
  <2>1. Range(live') \subseteq Range(live) \cup {held[t]}
    BY <1>1, <1>4, RecordOrder DEF LineInv
  <2>2. InHand' \subseteq InHand /\ held[t] \in InHand
    BY <1>1, <1>4 DEF InHand, StoreRecord, TypeOK
  <2>3. Memory' \subseteq Memory
    BY <1>4, <2>1, <2>2 DEF Memory, StoreRecord, flushVars
  <2>4. QED
    BY <1>4, <2>3, SessionKept DEF StoreRecord, procVars, Alive
<1>5. ASSUME BeginTick \/ BeginFlush PROVE SessionInv'
  <2>1. PICK max \in Nat : Drain(max)
    <3>1. Len(retry) + Len(live) \in Nat
      BY <1>1, LenProperties DEF TypeOK
    <3>2. QED
      BY <1>5, <3>1, StoreAssumption DEF BeginTick, BeginFlush
  <2>2. batch = <<>> /\ events' = events
    BY <1>5 DEF LineInv, CycleInv, BeginTick, BeginFlush, dbVars
  <2>3. Range(batch') \cup Range(retry') \cup Range(live') = Range(retry) \cup Range(live)
    BY <1>1, <2>1, <2>2, DrainOrder DEF LineInv
  <2>4. goal' \subseteq Range(retry) \cup Range(live) /\ held' = held
    BY <1>5 DEF BeginTick, BeginFlush
  <2>5. Memory' \subseteq Memory
    BY <2>3, <2>4 DEF Memory, InHand
  <2>6. QED
    BY <1>5, <2>5, SessionKept DEF BeginTick, BeginFlush, procVars, Alive
<1>6. CASE CommitBatch \/ FatalBatch
  <2>1. Memory' \subseteq Memory
    BY <1>6, EmptyLine DEF Memory, InHand, CommitBatch, FatalBatch, bufVars, flushVars
  <2>2. QED
    BY <1>6, <2>1, SessionKept DEF CommitBatch, FatalBatch, procVars, Alive
<1>7. CASE BusyBatch
  <2>1. Range(retry') \subseteq Range(batch) \cup Range(retry)
    BY <1>1, <1>7, BusyOrder DEF LineInv
  <2>2. batch' = <<>> /\ UNCHANGED <<held, live, goal>>
    BY <1>7 DEF BusyBatch
  <2>3. Memory' \subseteq Memory
    BY <2>1, <2>2, EmptyLine DEF Memory, InHand
  <2>4. QED
    BY <1>7, <2>3, SessionKept DEF BusyBatch, procVars, Alive
<1>8. CASE Crash
  <2>1. Memory' = {}
    BY <1>8, EmptyLine DEF Memory, InHand, Crash
  <2>2. QED
    BY <1>8, <2>1 DEF Crash, SessionInv
<1>9. CASE Reopen
  <2>1. Memory' = {}
    <3>1. /\ held' = [t \in Recorder |-> None] /\ batch' = <<>> /\ retry' = <<>>
          /\ live' = <<>> /\ goal' = {}
      BY <1>1, <1>9 DEF Reopen, DownInv, bufVars, flushVars
    <3>2. QED
      BY <3>1, EmptyLine DEF Memory, InHand
  <2>2. \A r \in Run : runSession'[r] <= session'
    BY <1>1, <1>9, SMTT(60), ZenonT(30) DEF Reopen, SessionInv, TypeOK
  <2>3. QED
    BY <2>1, <2>2 DEF SessionInv
<1>10. CASE Link \/ DrainEdges
  <2>1. UNCHANGED <<procVars, held, batch, retry, live, goal>>
    BY <1>10 DEF Link, DrainEdges, flushVars
  <2>2. QED
    BY <2>1, SessionKept DEF Memory, InHand, procVars, Alive
<1>11. CASE FlushRuns \/ FlushRunsFails \/ SkipRuns
  <2>1. /\ UNCHANGED <<session, runSession, held, batch, bufVars, goal>>
        /\ phase' = "down" => phase = "down"
    BY <1>11 DEF FlushRuns, FlushRunsFails, SkipRuns, EndCycle
  <2>2. EndCycle
    BY <1>11 DEF FlushRuns, FlushRunsFails, SkipRuns
  <2>3. phase # "down"
    BY <1>1, <1>11 DEF DownInv, FlushRuns, FlushRunsFails, SkipRuns
  <2>4. QED
    BY <2>1, <2>3, SessionKept DEF Memory, InHand, bufVars, Alive
<1>12. CASE Shutdown \/ CloseDatabase
  <2>1. /\ UNCHANGED <<session, runSession, held, batch, bufVars, flushVars>>
        /\ Alive
    BY <1>12 DEF Shutdown, CloseDatabase, Alive
  <2>2. QED
    BY <2>1, SessionKept DEF Memory, InHand, bufVars, flushVars, Alive
<1>13. CASE UNCHANGED vars
  BY <1>13, SessionKept DEF vars, procVars, bufVars, flushVars, Memory, InHand, Alive
<1>14. QED
  BY <1>2, <1>3, <1>4, <1>5, <1>6, <1>7, <1>8, <1>9, <1>10, <1>11, <1>12, <1>13
  DEF Next, Record, WriterStep

LEMMA InitSession == Init => SessionInv
<1> SUFFICES ASSUME Init PROVE SessionInv
  OBVIOUS
<1>1. Memory = {}
  BY EmptyLine DEF Init, Memory, InHand
<1>2. QED
  BY <1>1 DEF Init, SessionInv

LEMMA NextLine ==
  ASSUME TypeInv, LineInv, SessionInv, [Next]_vars
  PROVE  LineInv'
<1>1. TypeOK /\ DownInv /\ OrderInv
  BY DEF TypeInv, LineInv
<1>2. ASSUME NEW t \in Recorder, NEW r \in Run, TakeSequence(t, r) PROVE LineInv'
  BY <1>2, TakeLine
<1>3. ASSUME NEW t \in Recorder, EncodeFails(t) PROVE LineInv'
  BY <1>1, <1>3, EncodeLine
<1>4. ASSUME NEW t \in Recorder, StoreRecord(t) PROVE LineInv'
  BY <1>1, <1>4, RecordLine
<1>5. ASSUME BeginTick \/ BeginFlush PROVE LineInv'
  <2>1. PICK max \in Nat : Drain(max)
    <3>1. Len(retry) + Len(live) \in Nat
      BY <1>1, LenProperties DEF TypeOK
    <3>2. QED
      BY <1>5, <3>1, StoreAssumption DEF BeginTick, BeginFlush
  <2>2. batch = <<>> /\ events' = events /\ wpc' = "edges" /\ (Alive' => Alive)
    BY <1>5 DEF LineInv, CycleInv, BeginTick, BeginFlush, dbVars, procVars, Alive
  <2>3. OrderInv' /\ Rows' = Rows /\ CycleInv'
    BY <1>1, <2>1, <2>2, DrainOrder DEF CycleInv
  <2>4. UNCHANGED <<session, runSession, nextSeq, held, tally, lost>>
    BY <1>5 DEF BeginTick, BeginFlush, procVars, lossVars
  <2>5. QED
    BY <2>2, <2>3, <2>4, MovesLine
<1>6. CASE CommitBatch
  <2>1. UNCHANGED <<session, runSession, nextSeq, held, tally, lost>> /\ (Alive' => Alive)
    BY <1>6 DEF CommitBatch, procVars, lossVars, Alive
  <2>2. CycleInv'
    BY <1>6 DEF CommitBatch, CycleInv
  <2>3. QED
    BY <1>1, <1>6, <2>1, <2>2, CommitOrder, MovesLine
<1>7. CASE BusyBatch
  <2>1. UNCHANGED <<session, runSession, nextSeq, held>> /\ (Alive' => Alive)
    BY <1>7 DEF BusyBatch, procVars, Alive
  <2>2. CycleInv'
    BY <1>7 DEF BusyBatch, CycleInv
  <2>3. /\ OrderInv' /\ Rows = Rows' \cup Range(Shed) /\ Apart(Range(Shed), Rows')
        /\ IsFiniteSet(Range(Shed)) /\ Cardinality(Range(Shed)) = Len(Shed)
        /\ tally' = tally + Len(Shed) /\ lost' = lost \cup Range(Shed)
    BY <1>1, <1>7, BusyOrder, BusyParts
  <2> DEFINE shed == Range(Shed)
  <2>4. tally' = tally + Cardinality(shed) /\ shed \subseteq shed
    BY <2>3
  <2> HIDE DEF shed
  <2>5. QED
    BY <1>1, <2>1, <2>2, <2>3, <2>4, ShedsLine DEF shed
<1>8. CASE FatalBatch
  <2>1. UNCHANGED <<session, runSession, nextSeq, held>> /\ (Alive' => Alive)
    BY <1>8 DEF FatalBatch, procVars, Alive
  <2>2. CycleInv'
    BY <1>8 DEF FatalBatch, CycleInv
  <2>3. /\ OrderInv' /\ Rows = Rows' \cup Range(batch) /\ Apart(Range(batch), Rows')
    BY <1>1, <1>8, FatalOrder
  <2> DEFINE rows == Range(batch)
             counted == {e \in rows : InTier(e)}
  <2>4. \A i, j \in 1 .. Len(batch) : i # j => batch[i] # batch[j]
    <3> SUFFICES ASSUME NEW i \in 1 .. Len(batch), NEW j \in 1 .. Len(batch), i # j
                 PROVE  batch[i] # batch[j]
      OBVIOUS
    <3>1. i < j \/ j < i
      BY <1>1, LenProperties DEF TypeOK
    <3>2. <<batch[i], batch[j]>> \in Precedes \/ <<batch[j], batch[i]>> \in Precedes
      BY <1>1, <3>1 DEF OrderInv, Increasing
    <3>3. QED
      BY <3>2, PrecedesFacts DEF Same
  <2>5. /\ lost' = lost \cup counted /\ IsFiniteSet(counted)
        /\ tally' = tally + Cardinality(counted)
    BY <1>1, <1>8, <2>4, TallyParts DEF FatalBatch, TypeOK
  <2>6. counted \subseteq rows /\ \A e \in rows \ counted : ~InTier(e)
    OBVIOUS
  <2> HIDE DEF rows, counted
  <2>7. QED
    BY <1>1, <2>1, <2>2, <2>3, <2>5, <2>6, ShedsLine DEF rows
<1>9. CASE Crash
  BY <1>1, <1>9, CrashLine
<1>10. CASE Reopen
  BY <1>1, <1>10, ReopenLine
<1>11. ASSUME UNCHANGED <<session, runSession, nextSeq, held, tally, lost>>,
              UNCHANGED <<events, batch, retry, live>>,
              CycleInv', Alive' => Alive
       PROVE  LineInv'
  <2>1. Rows' = Rows /\ OrderInv'
    BY <1>1, <1>11 DEF Rows, OrderInv
  <2>2. QED
    BY <1>11, <2>1, MovesLine
<1>12. CASE DrainEdges
  <2>1. wpc' \in {"insert", "runs"} /\ (wpc' = "runs" => batch = <<>>) /\ batch' = batch
    BY <1>12 DEF DrainEdges
  <2>2. CycleInv'
    BY <2>1 DEF CycleInv
  <2>3. QED
    BY <1>11, <1>12, <2>2 DEF DrainEdges, procVars, lossVars, dbVars, Alive
<1>13. CASE Link \/ Shutdown \/ CloseDatabase \/ UNCHANGED vars
  <2>1. CycleInv'
    BY <1>13 DEF LineInv, CycleInv, Link, Shutdown, CloseDatabase, vars
  <2>2. UNCHANGED <<session, runSession, nextSeq, held, tally, lost>>
    BY <1>13 DEF Link, Shutdown, CloseDatabase, vars, procVars, lossVars
  <2>3. UNCHANGED <<events, batch, retry, live>>
    BY <1>13 DEF Link, Shutdown, CloseDatabase, vars, bufVars, dbVars
  <2>4. Alive' => Alive
    BY <1>13 DEF Link, Shutdown, CloseDatabase, vars, procVars, Alive
  <2>5. QED
    BY <1>11, <2>1, <2>2, <2>3, <2>4
<1>14. CASE FlushRuns \/ FlushRunsFails \/ SkipRuns
  <2>1. EndCycle /\ wpc = "runs"
    BY <1>14 DEF FlushRuns, FlushRunsFails, SkipRuns
  <2>2. batch = <<>>
    BY <2>1 DEF LineInv, CycleInv
  <2>3. CycleInv' /\ UNCHANGED <<session, runSession, nextSeq, held, tally, lost>>
        /\ UNCHANGED <<events, batch, retry, live>>
    BY <2>1, <2>2 DEF EndCycle, CycleInv, lossVars, bufVars
  <2>4. Alive
    BY <1>1, <2>1 DEF DownInv, Alive
  <2>5. QED
    BY <1>11, <2>3, <2>4
<1>15. QED
  BY <1>2, <1>3, <1>4, <1>5, <1>6, <1>7, <1>8, <1>9, <1>10, <1>12, <1>13, <1>14
  DEF Next, Record, WriterStep

Inv == TypeInv /\ LineInv /\ SessionInv

LEMMA Invariant == Spec => []Inv
<1>1. Init => Inv
  BY InitType, InitLine, InitSession DEF Inv, TypeInv
<1>2. Inv /\ [Next]_vars => Inv'
  BY NextType, NextDown, NextLine, NextSession DEF Inv, TypeInv
<1>3. QED
  BY <1>1, <1>2, PTL DEF Spec

(* A thread's events of one run are committed in the order in which the    *)
(* thread recorded them, and none twice, also when batches are retried.    *)
THEOREM RecordingOrder == Spec => []ThreadOrder
<1>1. Inv => ThreadOrder
  BY DEF Inv, LineInv, OrderInv, Increasing, Precedes, ThreadOrder
<1>2. QED
  BY <1>1, Invariant, PTL

(* The whole line is in order, and holds the rows of its parts.            *)
LEMMA LineOrdered ==
  ASSUME TypeOK, OrderInv
  PROVE  Line \in Seq(Event) /\ Increasing(Line, Precedes) /\ Range(Line) = Rows
<1> DEFINE back == retry \o live
           middle == batch \o back
<1>1. /\ back \in Seq(Event) /\ Increasing(back, Precedes)
      /\ Range(back) = Range(retry) \cup Range(live)
  <2>1. Range(retry) \X Range(live) \subseteq Precedes
    BY DEF OrderInv, Before
  <2>2. back \in Seq(Event) /\ Range(back) = Range(retry) \cup Range(live)
    BY ConcatProperties, RangeConcatenation DEF TypeOK
  <2>3. QED
    BY <2>1, <2>2, IncreasingConcat DEF OrderInv, TypeOK
<1> HIDE DEF back
<1>2. /\ middle \in Seq(Event) /\ Increasing(middle, Precedes)
      /\ Range(middle) = Range(batch) \cup Range(back)
  <2>1. Range(batch) \X Range(back) \subseteq Precedes
    BY <1>1 DEF OrderInv, Before
  <2>2. middle \in Seq(Event) /\ Range(middle) = Range(batch) \cup Range(back)
    BY <1>1, ConcatProperties, RangeConcatenation DEF TypeOK
  <2>3. QED
    BY <1>1, <2>1, <2>2, IncreasingConcat DEF OrderInv, TypeOK
<1> HIDE DEF middle
<1>3. /\ events \o middle \in Seq(Event) /\ Increasing(events \o middle, Precedes)
      /\ Range(events \o middle) = Range(events) \cup Range(middle)
  <2>1. Range(events) \X Range(middle) \subseteq Precedes
    BY <1>1, <1>2 DEF OrderInv, Before
  <2>2. /\ events \o middle \in Seq(Event)
        /\ Range(events \o middle) = Range(events) \cup Range(middle)
    BY <1>2, ConcatProperties, RangeConcatenation DEF TypeOK
  <2>3. QED
    BY <1>2, <2>1, <2>2, IncreasingConcat DEF OrderInv, TypeOK
<1>4. Line = events \o middle
  <2>1. Line = ((events \o batch) \o retry) \o live
    BY DEF Line
  <2>2. /\ events \in Seq(Event) /\ batch \in Seq(Event) /\ retry \in Seq(Event)
        /\ live \in Seq(Event)
    BY DEF TypeOK
  <2>3. (events \o batch) \o retry = events \o (batch \o retry)
    BY <2>2, ConcatAssociative, SMTT(60), ZenonT(30)
  <2>4. (events \o (batch \o retry)) \o live = events \o ((batch \o retry) \o live)
    <3> DEFINE front == batch \o retry
    <3>1. front \in Seq(Event)
      BY <2>2, ConcatProperties
    <3> HIDE DEF front
    <3>2. (events \o front) \o live = events \o (front \o live)
      BY <2>2, <3>1, ConcatAssociative, SMTT(30), ZenonT(30)
    <3>3. QED
      BY <3>2 DEF front
  <2>5. (batch \o retry) \o live = batch \o (retry \o live)
    BY <2>2, ConcatAssociative
  <2>6. QED
    BY <2>1, <2>3, <2>4, <2>5 DEF middle, back
<1>5. QED
  BY <1>1, <1>2, <1>3, <1>4 DEF Rows

(* While the process lives, every event it numbered in one of the four     *)
(* tiers is in exactly one place - with its recorder, in the buffer, in    *)
(* the writer's batch, durable, or counted once in drop_stats; an event of *)
(* an unknown tier is in one of them at most.                              *)
THEOREM LossIsCounted == Spec => []NoSilentLoss
<1>1. Inv => NoSilentLoss
  <2> SUFFICES ASSUME Inv, Alive PROVE NoSilentLoss
    BY DEF NoSilentLoss
  <2>1. Increasing(Line, Precedes) /\ Range(Line) = Rows
    BY LineOrdered DEF Inv, TypeInv, LineInv
  <2>2. Line \in Seq(Event) /\ Len(Line) \in Nat
    BY LineOrdered, LenProperties DEF Inv, TypeInv, LineInv
  <2>3. \A i, j \in 1 .. Len(Line) : i # j => ~Same(Line[i], Line[j])
    <3>1. ASSUME NEW i \in 1 .. Len(Line), NEW j \in 1 .. Len(Line), i # j
          PROVE  ~Same(Line[i], Line[j])
      <4>1. i < j \/ j < i
        BY <2>2, <3>1
      <4>2. <<Line[i], Line[j]>> \in Precedes \/ <<Line[j], Line[i]>> \in Precedes
        BY <2>1, <4>1 DEF Increasing
      <4>3. QED
        BY <4>2, PrecedesFacts
    <3>2. QED
      BY <3>1
  <2>4. Cardinality(lost) = tally /\ Apart(lost, Rows) /\ Apart(InHand, lost)
    BY DEF Inv, LineInv, LostInv, Apart, Same
  <2>5. \A r \in SessionRuns, k \in 0 .. MaxEvents - 1 :
          k < nextSeq[r] /\ <<r, k>> \notin OffTier =>
            \E e \in InHand \cup Rows \cup lost : e.run = r /\ e.seq = k
    BY DEF Inv, LineInv, PlaceInv
  <2>6. Apart(InHand, Rows)
    BY RowsApart DEF Inv, Apart
  <2>7. \A t, u \in Recorder :
          t # u /\ held[t] # None /\ held[u] # None => ~Same(held[t], held[u])
    BY DEF Inv, LineInv, HeldInv
  <2>8. QED
    BY <2>1, <2>3, <2>4, <2>5, <2>6, <2>7 DEF NoSilentLoss
<1>2. QED
  BY <1>1, Invariant, PTL

-----------------------------------------------------------------------------
(* The runs table follows the events *)

(* The state of a run of this session is folded from its durable events.   *)
FoldInv ==
  /\ Alive => \A r \in SessionRuns : active[r] = OfRun(events, r)
  /\ \A r \in Run \ SessionRuns : active[r] = <<>>

LEMMA InitFold == Init => FoldInv /\ MetadataFollowsEvents
<1> SUFFICES ASSUME Init PROVE FoldInv /\ MetadataFollowsEvents
  OBVIOUS
<1>1. /\ \A r \in Run : active[r] = <<>> /\ runs[r] = [count |-> 0, fingerprint |-> <<>>]
      /\ events = <<>> /\ SessionRuns = {}
  BY DEF Init, SessionRuns
<1>2. FoldInv
  BY <1>1 DEF FoldInv
<1>3. \A r \in Run : OfRun(events, r) = <<>>
  BY <1>1, OfRunEmpty
<1>4. <<>> \in Seq(Event) /\ Len(<<>>) = 0
  BY EmptySeq
<1>5. IsPrefix(<<>>, <<>>)
  BY <1>4, PrefixFacts
<1>6. QED
  BY <1>1, <1>2, <1>3, <1>4, <1>5 DEF MetadataFollowsEvents

(* No row of a run that no process has started.                            *)
LEMMA FreshRun ==
  ASSUME TypeOK, LineInv, NEW r \in Run, runSession[r] = 0
  PROVE  OfRun(events, r) = <<>>
<1>1. \A e \in Rows : e.run # r
  <2> SUFFICES ASSUME NEW e \in Rows, e.run = r PROVE FALSE
    OBVIOUS
  <2>1. e \in Event /\ e.seq < nextSeq[r] /\ nextSeq[r] = 0
    BY RangeTypes DEF LineInv, NumberInv
  <2>2. e.seq \in Nat
    BY <2>1 DEF Event
  <2>3. QED
    BY <2>1, <2>2
<1>2. \A i \in 1 .. Len(events) : events[i].run # r
  <2>1. Range(events) = {events[i] : i \in 1 .. Len(events)}
    BY RangeEquality DEF TypeOK
  <2>2. QED
    BY <1>1, <2>1 DEF Rows
<1>3. QED
  BY <1>2, OfRunNone DEF TypeOK

(* A commit folds the batch into the runs of this session, which are all   *)
(* the runs the batch has rows of.                                         *)
LEMMA CommitFold ==
  ASSUME TypeInv, SessionInv, FoldInv, MetadataFollowsEvents, CommitBatch
  PROVE  FoldInv' /\ MetadataFollowsEvents'
<1>1. /\ TypeOK /\ Alive /\ Alive' /\ SessionRuns' = SessionRuns
      /\ events' = events \o batch /\ runs' = runs
      /\ active' = [r \in Run |-> active[r] \o OfRun(batch, r)]
  BY DEF CommitBatch, TypeInv, DownInv, procVars, SessionRuns, Alive
<1>2. ASSUME NEW r \in Run
      PROVE  /\ OfRun(events, r) \in Seq(Event) /\ OfRun(batch, r) \in Seq(Event)
             /\ OfRun(events', r) = OfRun(events, r) \o OfRun(batch, r)
  <2>1. events \in Seq(Event) /\ batch \in Seq(Event)
    BY <1>1 DEF TypeOK
  <2>2. OfRun(events, r) \in Seq(Event) /\ OfRun(batch, r) \in Seq(Event)
    BY <2>1, OfRunType
  <2>3. OfRun(events \o batch, r) = OfRun(events, r) \o OfRun(batch, r)
    BY <2>1, OfRunConcat
  <2>4. QED
    BY <1>1, <2>2, <2>3
<1>3. ASSUME NEW r \in Run \ SessionRuns PROVE active'[r] = <<>>
  <2>1. Range(batch) = {batch[i] : i \in 1 .. Len(batch)}
    BY <1>1, RangeEquality DEF TypeOK
  <2>2. \A i \in 1 .. Len(batch) : batch[i].run # r
    BY <1>1, <2>1 DEF SessionInv, Memory
  <2>3. OfRun(batch, r) = <<>>
    BY <1>1, <2>2, OfRunNone DEF TypeOK
  <2>4. active'[r] = <<>> \o <<>>
    BY <1>1, <2>3 DEF FoldInv
  <2>5. <<>> \in Seq(Event)
    BY EmptySeq
  <2>6. QED
    BY <2>4, <2>5, ConcatEmptySeq
<1>4. FoldInv'
  <2>1. ASSUME NEW r \in SessionRuns' PROVE active'[r] = OfRun(events', r)
    <3>1. r \in Run /\ r \in SessionRuns
      BY <1>1, <2>1 DEF SessionRuns
    <3>2. active'[r] = active[r] \o OfRun(batch, r) /\ active[r] = OfRun(events, r)
      BY <1>1, <3>1 DEF FoldInv
    <3>3. QED
      BY <1>2, <3>1, <3>2
  <2>2. QED
    BY <1>1, <1>3, <2>1 DEF FoldInv
<1>5. MetadataFollowsEvents'
  <2> SUFFICES ASSUME NEW r \in Run
               PROVE  /\ runs[r].count <= Len(OfRun(events', r))
                      /\ Len(runs[r].fingerprint) <= runs[r].count
                      /\ IsPrefix(runs[r].fingerprint, OfRun(events', r))
    BY <1>1 DEF MetadataFollowsEvents
  <2> DEFINE old == OfRun(events, r)
             more == OfRun(batch, r)
             f == runs[r].fingerprint
  <2>1. /\ old \in Seq(Event) /\ more \in Seq(Event) /\ f \in Seq(Event)
        /\ runs[r].count \in Nat
    BY <1>1, <1>2 DEF TypeOK
  <2>2. runs[r].count <= Len(old) /\ Len(f) <= runs[r].count /\ IsPrefix(f, old)
    BY DEF MetadataFollowsEvents
  <2>3. OfRun(events', r) = old \o more
    BY <1>2
  <2> HIDE DEF old, more, f
  <2>4. IsPrefix(f, old \o more) /\ Len(old) <= Len(old \o more)
    BY <2>1, <2>2, PrefixGrows
  <2>5. Len(old) \in Nat /\ Len(old \o more) \in Nat
    BY <2>1, ConcatProperties, LenProperties
  <2>6. QED
    BY <2>1, <2>2, <2>3, <2>4, <2>5 DEF f
<1>6. QED
  BY <1>4, <1>5

(* A flush of the runs table writes what was folded.                       *)
LEMMA FlushFold ==
  ASSUME TypeInv, FoldInv, MetadataFollowsEvents, FlushRuns
  PROVE  FoldInv' /\ MetadataFollowsEvents'
<1>1. /\ TypeOK /\ Alive /\ Alive' /\ SessionRuns' = SessionRuns
      /\ UNCHANGED <<events, active>>
  BY DEF FlushRuns, EndCycle, TypeInv, DownInv, SessionRuns, Alive
<1>2. FoldInv'
  BY <1>1 DEF FoldInv
<1>3. MetadataFollowsEvents'
  <2> SUFFICES ASSUME NEW r \in Run
               PROVE  /\ runs'[r].count <= Len(OfRun(events, r))
                      /\ Len(runs'[r].fingerprint) <= runs'[r].count
                      /\ IsPrefix(runs'[r].fingerprint, OfRun(events, r))
    BY <1>1 DEF MetadataFollowsEvents
  <2> DEFINE a == active[r]
             durable == OfRun(events, r)
  <2>1. a \in Seq(Event) /\ durable \in Seq(Event) /\ (a = durable \/ a = <<>>)
    BY <1>1, OfRunType DEF FoldInv, TypeOK
  <2>2. CASE r \in Staged
    <3>1. runs'[r].count = Len(a) /\ runs'[r].fingerprint = a
      BY <2>2 DEF FlushRuns
    <3> HIDE DEF a, durable
    <3>2. Len(a) \in Nat /\ Len(durable) \in Nat /\ Len(a) <= Len(durable)
          /\ IsPrefix(a, durable)
      BY <2>1, LenProperties, PrefixFacts
    <3>3. QED
      BY <3>1, <3>2 DEF durable
  <2>3. CASE r \notin Staged
    BY <2>3 DEF FlushRuns, MetadataFollowsEvents
  <2>4. QED
    BY <2>2, <2>3
<1>4. QED
  BY <1>2, <1>3

(* Opening the file counts every durable event of a run and keeps its      *)
(* fingerprint.                                                            *)
LEMMA ReopenFold ==
  ASSUME TypeInv, LineInv, SessionInv, MetadataFollowsEvents, Reopen
  PROVE  /\ FoldInv' /\ MetadataFollowsEvents'
         /\ \A r \in Run : runs'[r].count = Len(OfRun(events', r))
<1>1. /\ TypeOK /\ SessionRuns' = {} /\ events' = events
      /\ runs' = [r \in Run |-> Reconciled(r)]
      /\ active' = [r \in Run |-> <<>>]
  BY ReopenLine DEF Reopen, TypeInv, DownInv, memVars
<1>2. FoldInv'
  BY <1>1 DEF FoldInv
<1>3. ASSUME NEW r \in Run
      PROVE  /\ runs'[r].count = Len(OfRun(events, r))
             /\ Len(runs'[r].fingerprint) <= runs'[r].count
             /\ IsPrefix(runs'[r].fingerprint, OfRun(events, r))
  <2> DEFINE durable == OfRun(events, r)
  <2>1. /\ durable \in Seq(Event) /\ Len(durable) \in Nat
        /\ runs[r] \in [count : Nat, fingerprint : Seq(Event)]
        /\ Len(runs[r].fingerprint) \in Nat
    BY <1>1, OfRunType, LenProperties DEF TypeOK
  <2>2. /\ runs[r].count <= Len(durable) /\ Len(runs[r].fingerprint) <= runs[r].count
        /\ IsPrefix(runs[r].fingerprint, durable)
    BY DEF MetadataFollowsEvents
  <2>3. runs'[r] = IF Len(durable) > runs[r].count
                     THEN [runs[r] EXCEPT !.count = Len(durable)] ELSE runs[r]
    BY <1>1 DEF Reconciled
  <2> HIDE DEF durable
  <2>4. runs'[r].count = Len(durable) /\ runs'[r].fingerprint = runs[r].fingerprint
    BY <2>1, <2>2, <2>3
  <2>5. QED
    BY <2>1, <2>2, <2>4 DEF durable
<1>4. ASSUME NEW r \in Run PROVE Len(OfRun(events, r)) \in Nat
  BY <1>1, OfRunType, LenProperties DEF TypeOK
<1>5. MetadataFollowsEvents'
  BY <1>1, <1>3, <1>4 DEF MetadataFollowsEvents
<1>6. QED
  BY <1>1, <1>2, <1>3, <1>5

LEMMA TakeFold ==
  ASSUME TypeInv, LineInv, FoldInv, NEW t \in Recorder, NEW r \in Run,
         TakeSequence(t, r)
  PROVE  FoldInv'
<1>1. /\ TypeOK /\ session' = session /\ runSession' = [runSession EXCEPT ![r] = session]
      /\ runSession[r] \in {0, session} /\ session \in Nat
      /\ UNCHANGED <<events, active>> /\ Alive
  BY DEF TypeInv, TypeOK, TakeSequence, dbVars, memVars
<1>2. SessionRuns' = SessionRuns \cup {r}
  BY <1>1 DEF SessionRuns, TypeOK
<1>3. active[r] = OfRun(events, r)
  <2>1. CASE r \in SessionRuns
    BY <1>1, <2>1 DEF FoldInv
  <2>2. CASE r \notin SessionRuns
    <3>1. runSession[r] = 0 /\ active[r] = <<>>
      BY <1>1, <2>2 DEF SessionRuns, FoldInv
    <3>2. QED
      BY <1>1, <3>1, FreshRun
  <2>3. QED
    BY <2>1, <2>2
<1>4. QED
  BY <1>1, <1>2, <1>3 DEF FoldInv

LEMMA NextFold ==
  ASSUME Inv, FoldInv, MetadataFollowsEvents, [Next]_vars
  PROVE  FoldInv' /\ MetadataFollowsEvents'
<1>1. TypeInv /\ LineInv /\ SessionInv /\ DownInv
  BY DEF Inv, TypeInv
<1>2. ASSUME UNCHANGED <<events, runs>> PROVE MetadataFollowsEvents'
  BY <1>2 DEF MetadataFollowsEvents
<1>3. ASSUME UNCHANGED <<session, runSession, active, events, runs>>, Alive' => Alive
      PROVE  FoldInv' /\ MetadataFollowsEvents'
  BY <1>2, <1>3 DEF FoldInv, SessionRuns
<1>4. ASSUME NEW t \in Recorder, NEW r \in Run, TakeSequence(t, r)
      PROVE  FoldInv' /\ MetadataFollowsEvents'
  BY <1>1, <1>2, <1>4, TakeFold DEF TakeSequence, dbVars
<1>5. ASSUME NEW t \in Recorder, EncodeFails(t) \/ StoreRecord(t)
      PROVE  FoldInv' /\ MetadataFollowsEvents'
  <2>1. UNCHANGED <<procVars, memVars, dbVars>>
    BY <1>5 DEF EncodeFails, StoreRecord
  <2>2. QED
    BY <1>3, <2>1 DEF procVars, memVars, dbVars, Alive
<1>6. CASE CommitBatch
  BY <1>1, <1>6, CommitFold
<1>7. CASE FlushRuns
  BY <1>1, <1>7, FlushFold
<1>8. CASE Reopen
  BY <1>1, <1>8, ReopenFold
<1>9. CASE Crash
  <2>1. UNCHANGED <<session, runSession, events, runs>> /\ phase' = "down"
        /\ active' = [r \in Run |-> <<>>]
    BY <1>9 DEF Crash, dbVars
  <2>2. QED
    BY <1>2, <2>1 DEF FoldInv, Alive
<1>10. CASE Link \/ BeginTick \/ BeginFlush \/ DrainEdges \/ BusyBatch \/ FatalBatch
              \/ UNCHANGED vars
  <2>1. UNCHANGED <<procVars, memVars, dbVars>>
    BY <1>10 DEF Link, BeginTick, BeginFlush, DrainEdges, BusyBatch, FatalBatch, vars
  <2>2. QED
    BY <1>3, <2>1 DEF procVars, memVars, dbVars, Alive
<1>11. CASE FlushRunsFails \/ SkipRuns
  <2>1. /\ UNCHANGED <<session, runSession, active, events, runs>>
        /\ wpc = "runs"
    BY <1>11 DEF FlushRunsFails, SkipRuns, EndCycle
  <2>2. Alive
    BY <1>1, <2>1 DEF DownInv, Alive
  <2>3. QED
    BY <1>3, <2>1, <2>2
<1>12. CASE Shutdown \/ CloseDatabase
  <2>1. /\ UNCHANGED <<session, runSession, memVars, dbVars>> /\ Alive
    BY <1>12 DEF Shutdown, CloseDatabase, Alive
  <2>2. QED
    BY <1>3, <2>1 DEF memVars, dbVars
<1>13. QED
  BY <1>4, <1>5, <1>6, <1>7, <1>8, <1>9, <1>10, <1>11, <1>12
  DEF Next, Record, WriterStep

(* While a flush has met no trouble, what it found in the buffer is in its *)
(* batch and, once that is committed, in the table of events.              *)
BarrierInv ==
  mode # "tick" /\ ~trouble =>
    /\ wpc \in {"edges", "insert"} => goal \subseteq Range(batch)
    /\ wpc = "runs" => goal \subseteq Range(events)

(* A flush drains the whole buffer.                                        *)
LEMMA FlushDrains ==
  ASSUME TypeOK, LineInv, BeginFlush
  PROVE  goal' \subseteq Range(batch')
<1> DEFINE max == Len(retry) + Len(live)
<1>1. /\ Len(retry) \in Nat /\ Len(live) \in Nat /\ max \in Nat
      /\ retry \in Seq(Event) /\ live \in Seq(Event)
  BY LenProperties DEF TypeOK
<1>2. Drain(max) /\ batch = <<>> /\ events' = events
      /\ goal' = Range(retry) \cup Range(live)
  BY DEF BeginFlush, LineInv, CycleInv, dbVars
<1>3. TakenRetries(max) = Len(retry) /\ TakenLive(max) = Len(live)
  BY <1>1, DrainCounts
<1>4. retry' = Left(retry, Len(retry)) /\ live' = Left(live, Len(live))
  BY <1>2, <1>3, DrainParts
<1> HIDE DEF max
<1>5. Left(retry, Len(retry)) = <<>> /\ Left(live, Len(live)) = <<>>
  <2>1. /\ Len(retry) \in Int /\ Len(retry) + 1 \in Int /\ Len(retry) < Len(retry) + 1
        /\ Len(live) \in Int /\ Len(live) + 1 \in Int /\ Len(live) < Len(live) + 1
    BY <1>1
  <2>2. QED
    BY <2>1, SubSeqEmpty DEF Left
<1>6. Range(batch') \cup Range(retry') \cup Range(live') = Range(retry) \cup Range(live)
  BY <1>1, <1>2, DrainOrder DEF LineInv
<1>7. Range(retry') = {} /\ Range(live') = {}
  BY <1>4, <1>5, EmptyLine
<1>8. QED
  BY <1>2, <1>6, <1>7

LEMMA NextBarrier ==
  ASSUME Inv, BarrierInv, [Next]_vars
  PROVE  BarrierInv'
<1>1. TypeOK /\ LineInv
  BY DEF Inv, TypeInv
<1>2. ASSUME UNCHANGED <<mode, trouble, goal, wpc, batch, events>> PROVE BarrierInv'
  BY <1>2 DEF BarrierInv
<1>3. ASSUME NEW t \in Recorder, NEW r \in Run, TakeSequence(t, r) PROVE BarrierInv'
  BY <1>2, <1>3 DEF TakeSequence, flushVars, dbVars
<1>4. ASSUME NEW t \in Recorder, EncodeFails(t) PROVE BarrierInv'
  BY <1>2, <1>4 DEF EncodeFails, flushVars, dbVars
<1>5. ASSUME NEW t \in Recorder, StoreRecord(t) PROVE BarrierInv'
  <2>1. UNCHANGED <<wpc, batch, flushVars, dbVars>>
    BY <1>5 DEF StoreRecord
  <2>2. QED
    BY <1>2, <2>1 DEF flushVars, dbVars
<1>6. CASE Link \/ Shutdown \/ CloseDatabase \/ Reopen \/ UNCHANGED vars
  <2>1. UNCHANGED <<wpc, batch, flushVars, events>>
    BY <1>6 DEF Link, Shutdown, CloseDatabase, Reopen, vars, dbVars
  <2>2. QED
    BY <1>2, <2>1 DEF flushVars
<1>7. CASE BeginTick \/ Crash
  BY <1>7 DEF BeginTick, Crash, BarrierInv
<1>8. CASE BeginFlush
  <2>1. wpc' = "edges"
    BY <1>8 DEF BeginFlush
  <2>2. QED
    BY <1>1, <1>8, <2>1, FlushDrains DEF BarrierInv
<1>9. CASE DrainEdges
  <2>1. /\ wpc = "edges" /\ wpc' \in {"insert", "runs"}
        /\ wpc' = "runs" => batch = <<>>
        /\ UNCHANGED <<mode, trouble, goal, batch, events>>
    BY <1>9 DEF DrainEdges, flushVars, dbVars
  <2>2. wpc' = "runs" => Range(batch) = {}
    BY <2>1, EmptyLine
  <2>3. QED
    BY <2>1, <2>2 DEF BarrierInv
<1>10. CASE CommitBatch
  <2>1. /\ wpc = "insert" /\ wpc' = "runs" /\ UNCHANGED <<mode, trouble, goal>>
        /\ events' = events \o batch
    BY <1>10 DEF CommitBatch, flushVars
  <2>2. Range(events') = Range(events) \cup Range(batch)
    BY <1>1, <2>1, RangeConcatenation DEF TypeOK
  <2>3. QED
    BY <2>1, <2>2 DEF BarrierInv
<1>11. CASE BusyBatch \/ FatalBatch
  <2>1. trouble' = TRUE
    BY <1>11 DEF BusyBatch, FatalBatch
  <2>2. QED
    BY <2>1 DEF BarrierInv
<1>12. CASE FlushRuns \/ FlushRunsFails \/ SkipRuns
  <2>1. wpc' = "idle"
    BY <1>12 DEF FlushRuns, FlushRunsFails, SkipRuns, EndCycle
  <2>2. QED
    BY <2>1 DEF BarrierInv
<1>13. QED
  BY <1>3, <1>4, <1>5, <1>6, <1>7, <1>8, <1>9, <1>10, <1>11, <1>12
  DEF Next, Record, WriterStep

FullInv == Inv /\ FoldInv /\ MetadataFollowsEvents /\ BarrierInv

LEMMA FullInvariant == Spec => []FullInv
<1>1. Init => FullInv
  <2>1. Init => Inv
    BY InitType, InitLine, InitSession DEF Inv, TypeInv
  <2>2. Init => BarrierInv
    BY DEF Init, BarrierInv
  <2>3. QED
    BY <2>1, <2>2, InitFold DEF FullInv
<1>2. FullInv /\ [Next]_vars => FullInv'
  <2>1. Inv /\ [Next]_vars => Inv'
    BY NextType, NextDown, NextLine, NextSession DEF Inv, TypeInv
  <2>2. QED
    BY <2>1, NextFold, NextBarrier DEF FullInv
<1>3. QED
  BY <1>1, <1>2, PTL DEF Spec

(* Run metadata never runs ahead of the data: event_count never exceeds    *)
(* the run's durable events, and the fingerprint is that of a prefix of    *)
(* them in commit order, whatever was rolled back, retried or recovered.   *)
THEOREM MetadataIsBehind == Spec => []MetadataFollowsEvents
<1>1. FullInv => MetadataFollowsEvents
  BY DEF FullInv
<1>2. QED
  BY <1>1, FullInvariant, PTL

(* Opening the file repairs the runs a dead process left behind: each run  *)
(* with durable events is listed with all of them counted.                 *)
THEOREM ReopenRepairs == Spec => ReopenReconciles
<1> DEFINE Repairs ==
      phase = "down" /\ phase' = "open" =>
        \A r \in Run : runs'[r].count = Len(OfRun(events', r))
<1>1. FullInv /\ [Next]_vars => [Repairs]_vars
  <2> SUFFICES ASSUME FullInv, [Next]_vars, phase = "down", phase' = "open"
               PROVE  \A r \in Run : runs'[r].count = Len(OfRun(events', r))
    OBVIOUS
  <2>1. wpc = "idle" /\ ~Alive
    BY DEF FullInv, Inv, TypeInv, DownInv, Alive
  <2>2. ASSUME NEW t \in Recorder, NEW r \in Run, TakeSequence(t, r) PROVE FALSE
    BY <2>1, <2>2 DEF TakeSequence
  <2>3. ASSUME NEW t \in Recorder, EncodeFails(t) \/ StoreRecord(t) PROVE FALSE
    BY <2>1, <2>3 DEF EncodeFails, StoreRecord
  <2>4. CASE Reopen
    BY <2>4, ReopenFold DEF FullInv, Inv
  <2>5. CASE WriterStep
    BY <2>1, <2>5 DEF WriterStep, DrainEdges, CommitBatch, BusyBatch, FatalBatch,
       FlushRuns, FlushRunsFails, SkipRuns
  <2>6. CASE Link \/ BeginTick \/ BeginFlush \/ Shutdown \/ CloseDatabase \/ Crash
    BY <2>1, <2>6 DEF Link, BeginTick, BeginFlush, Shutdown, CloseDatabase, Crash
  <2>7. CASE UNCHANGED vars
    BY <2>7 DEF vars, procVars
  <2>8. QED
    BY <2>2, <2>3, <2>4, <2>5, <2>6, <2>7 DEF Next, Record
<1>2. QED
  BY <1>1, FullInvariant, PTL DEF Spec, ReopenReconciles

(* A run that has a durable row is listed by a write of the runs table     *)
(* that a flush makes.                                                     *)
LEMMA FlushLists ==
  ASSUME FullInv, FlushRuns, mode # "tick", NEW e \in goal, e \in Range(events)
  PROVE  runs'[e.run].count > 0
<1>1. TypeOK /\ SessionInv /\ FoldInv /\ Alive
  BY DEF FullInv, Inv, TypeInv, DownInv, FlushRuns, Alive
<1>2. e.run \in SessionRuns /\ e.run \in Run
  BY <1>1 DEF SessionInv, Memory, SessionRuns
<1> DEFINE kept == active[e.run]
<1>3. kept = OfRun(events, e.run)
  BY <1>1, <1>2 DEF FoldInv
<1>4. OfRun(events, e.run) # <<>>
  <2>1. events \in Seq(Event)
    BY <1>1 DEF TypeOK
  <2>2. PICK i \in 1 .. Len(events) : e = events[i]
    BY <2>1, RangeEquality
  <2>3. QED
    BY <2>1, <2>2, OfRunSome
<1>5. e.run \in Staged
  BY <1>2, <1>3, <1>4 DEF Staged
<1>6. runs'[e.run].count = Len(kept)
  BY <1>2, <1>5 DEF FlushRuns
<1>7. kept \in Seq(Event) /\ kept # <<>>
  BY <1>1, <1>2, <1>3, <1>4 DEF TypeOK
<1> HIDE DEF kept
<1>8. Len(kept) \in Nat /\ Len(kept) # 0
  BY <1>7, LenProperties, EmptySeq
<1>9. QED
  BY <1>6, <1>8

(* flush is a barrier when its transactions went through: every event that *)
(* was buffered when it took the writer lock is readable when it returns.  *)
THEOREM FlushIsBarrier == Spec => FlushBarrier
<1> DEFINE Barrier ==
      CycleEnds /\ mode # "tick" /\ ~trouble' => \A e \in goal : Readable(e)'
<1>1. FullInv /\ [Next]_vars => [Barrier]_vars
  <2> SUFFICES ASSUME FullInv, [Next]_vars, CycleEnds, mode # "tick", ~trouble',
                      NEW e \in goal
               PROVE  Readable(e)'
    OBVIOUS
  <2>1. wpc = "runs" /\ wpc' = "idle" /\ phase' # "down"
    BY DEF CycleEnds
  <2>2. ASSUME NEW t \in Recorder, NEW r \in Run, TakeSequence(t, r) PROVE FALSE
    BY <2>1, <2>2 DEF TakeSequence
  <2>3. ASSUME NEW t \in Recorder, EncodeFails(t) \/ StoreRecord(t) PROVE FALSE
    BY <2>1, <2>3 DEF EncodeFails, StoreRecord
  <2>4. CASE FlushRuns
    <3>1. trouble' = trouble /\ events' = events
      BY <2>4 DEF FlushRuns, EndCycle
    <3>2. e \in Range(events)
      BY <2>1, <3>1 DEF FullInv, BarrierInv
    <3>3. runs'[e.run].count > 0
      BY <2>4, <3>2, FlushLists
    <3>4. QED
      BY <3>1, <3>2, <3>3 DEF Readable
  <2>5. CASE FlushRunsFails \/ SkipRuns
    BY <2>5 DEF FlushRunsFails, SkipRuns
  <2>6. CASE DrainEdges \/ CommitBatch \/ BusyBatch \/ FatalBatch
    BY <2>1, <2>6 DEF DrainEdges, CommitBatch, BusyBatch, FatalBatch
  <2>7. CASE Link \/ BeginTick \/ BeginFlush \/ Shutdown \/ CloseDatabase \/ Crash \/ Reopen
    BY <2>1, <2>7 DEF Link, BeginTick, BeginFlush, Shutdown, CloseDatabase, Crash, Reopen
  <2>8. CASE UNCHANGED vars
    BY <2>1, <2>8 DEF vars
  <2>9. QED
    BY <2>2, <2>3, <2>4, <2>5, <2>6, <2>7, <2>8 DEF Next, Record, WriterStep
<1>2. QED
  BY <1>1, FullInvariant, PTL DEF Spec, FlushBarrier
=============================================================================
