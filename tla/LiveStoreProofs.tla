---------------------------- MODULE LiveStoreProofs ----------------------------
(***************************************************************************)
(* Proofs about LiveStore, for every set of runs and subscriptions, every  *)
(* query language, every order in which candidates are visited and every   *)
(* callback that raises.                                                   *)
(***************************************************************************)
EXTENDS LiveStore, SequenceFacts, FiniteSetTheorems

-----------------------------------------------------------------------------
(* The sort of a snapshot *)

Preceding(events, i) ==
  {j \in DOMAIN events : \/ events[j].seq < events[i].seq
                         \/ events[j].seq = events[i].seq /\ j < i}

(* The place of event i in the snapshot.                                   *)
Place(events, i) == Cardinality(Preceding(events, i)) + 1

LEMMA PlaceOrder ==
  ASSUME NEW S, \A e \in S : e.seq \in Int, NEW events \in Seq(S),
         NEW i \in 1 .. Len(events)
  PROVE  /\ Place(events, i) \in 1 .. Len(events)
         /\ \A j \in 1 .. Len(events) :
              /\ j # i => j \in Preceding(events, i) \/ i \in Preceding(events, j)
              /\ j \in Preceding(events, i) =>
                   /\ events[j].seq <= events[i].seq
                   /\ Place(events, j) < Place(events, i)
<1> DEFINE D == 1 .. Len(events)
           seq(j) == events[j].seq
<1>1. /\ DOMAIN events = D /\ Len(events) \in Nat
      /\ \A j \in D : seq(j) \in Int
  BY ElementOfSeq, LenProperties
<1>2. IsFiniteSet(D) /\ Cardinality(D) = Len(events)
  <2>1. Len(events) \in Int /\ 1 \in Int
    BY <1>1
  <2>2. QED
    BY <1>1, <2>1, FS_Interval
<1>3. \A j \in D : Preceding(events, j) =
                     {k \in D : seq(k) < seq(j) \/ (seq(k) = seq(j) /\ k < j)}
  BY <1>1 DEF Preceding
<1>4. \A j \in D : /\ Preceding(events, j) \subseteq D \ {j}
                   /\ IsFiniteSet(Preceding(events, j))
                   /\ Cardinality(Preceding(events, j)) \in Nat
                   /\ Cardinality(Preceding(events, j)) <= Len(events) - 1
  <2> SUFFICES ASSUME NEW j \in D
               PROVE  /\ Preceding(events, j) \subseteq D \ {j}
                      /\ IsFiniteSet(Preceding(events, j))
                      /\ Cardinality(Preceding(events, j)) \in Nat
                      /\ Cardinality(Preceding(events, j)) <= Len(events) - 1
    OBVIOUS
  <2>1. Preceding(events, j) \in SUBSET (D \ {j})
    <3> HIDE DEF seq
    <3>1. QED
      BY <1>1, <1>3
  <2> HIDE DEF D
  <2>2. IsFiniteSet(D \ {j}) /\ Cardinality(D \ {j}) = Len(events) - 1
    BY <1>2, FS_RemoveElement
  <2>3. QED
    BY <2>1, <2>2, FS_Subset, FS_CardinalityType
<1> HIDE DEF seq
<1>5. \A j \in D : Place(events, j) \in D
  BY <1>1, <1>4 DEF Place
<1>6. ASSUME NEW j \in D, NEW k \in D, j \in Preceding(events, k)
      PROVE  seq(j) <= seq(k) /\ Place(events, j) < Place(events, k)
  <2>1. seq(j) \in Int /\ seq(k) \in Int /\ j \in Int /\ k \in Int
    BY <1>1
  <2>2. seq(j) < seq(k) \/ (seq(j) = seq(k) /\ j < k)
    BY <1>3, <1>6
  <2>3. Preceding(events, j) \subseteq Preceding(events, k)
    <3> SUFFICES ASSUME NEW m \in Preceding(events, j) PROVE m \in Preceding(events, k)
      OBVIOUS
    <3>1. m \in D /\ (seq(m) < seq(j) \/ (seq(m) = seq(j) /\ m < j))
      BY <1>3
    <3>2. seq(m) \in Int /\ m \in Int
      BY <1>1, <3>1
    <3>3. seq(m) < seq(k) \/ (seq(m) = seq(k) /\ m < k)
      BY <2>1, <2>2, <3>1, <3>2
    <3>4. QED
      BY <1>3, <3>1, <3>3
  <2>4. j \notin Preceding(events, j)
    BY <1>4
  <2> DEFINE P == Preceding(events, j)
             Q == Preceding(events, k)
  <2>5. P \in SUBSET (Q \ {j}) /\ IsFiniteSet(Q) /\ j \in Q
    BY <1>4, <1>6, <2>3, <2>4
  <2>6. Cardinality(P) \in Nat /\ Cardinality(Q) \in Nat
    BY <1>4
  <2> HIDE DEF P, Q
  <2>7. Cardinality(P) <= Cardinality(Q) - 1
    <3>1. IsFiniteSet(Q \ {j}) /\ Cardinality(Q \ {j}) = Cardinality(Q) - 1
      BY <2>5, FS_RemoveElement
    <3>2. Cardinality(P) <= Cardinality(Q \ {j})
      BY <2>5, <3>1, FS_Subset
    <3>3. QED
      BY <3>1, <3>2
  <2>8. Cardinality(P) + 1 < Cardinality(Q) + 1
    BY <2>6, <2>7
  <2>9. QED
    BY <2>1, <2>2, <2>8 DEF P, Q, Place
<1>7. ASSUME NEW j \in D, NEW k \in D, j # k
      PROVE  j \in Preceding(events, k) \/ k \in Preceding(events, j)
  <2>1. seq(j) \in Int /\ seq(k) \in Int /\ j \in Int /\ k \in Int
    BY <1>1
  <2>2. \/ seq(j) < seq(k) \/ (seq(j) = seq(k) /\ j < k)
        \/ seq(k) < seq(j) \/ (seq(k) = seq(j) /\ k < j)
    BY <1>7, <2>1
  <2>3. QED
    BY <1>3, <2>2
<1>8. QED
  BY <1>5, <1>6, <1>7 DEF seq

(* A snapshot holds the events of its run, sorted by their numbers.        *)
LEMMA Sorted ==
  ASSUME NEW S, \A e \in S : e.seq \in Int, NEW events \in Seq(S)
  PROVE  /\ SortedBySequence(events) \in Seq(S)
         /\ Len(SortedBySequence(events)) = Len(events)
         /\ ToSet(SortedBySequence(events)) = ToSet(events)
         /\ \A i, j \in 1 .. Len(events) : i < j =>
              SortedBySequence(events)[i].seq <= SortedBySequence(events)[j].seq
<1> DEFINE D == 1 .. Len(events)
           at(k) == CHOOSE i \in D : Cardinality(Preceding(events, i)) = k - 1
           place == [i \in D |-> Place(events, i)]
<1>1. DOMAIN events = D /\ Len(events) \in Nat /\ \A i \in D : events[i] \in S
  BY ElementOfSeq, LenProperties
<1>2. SortedBySequence(events) = [k \in D |-> events[at(k)]]
  BY <1>1 DEF SortedBySequence, Preceding
<1>3. /\ \A i \in D : place[i] \in D /\ place[i] = Place(events, i)
      /\ \A i, j \in D : j \in Preceding(events, i) =>
              events[j].seq <= events[i].seq /\ place[j] < place[i]
      /\ \A i, j \in D : j # i => j \in Preceding(events, i) \/ i \in Preceding(events, j)
  BY PlaceOrder
<1> HIDE DEF place
<1>4. place \in [D -> D]
  BY <1>3 DEF place
<1>5. \A i, j \in D : place[i] = place[j] => i = j
  <2> SUFFICES ASSUME NEW i \in D, NEW j \in D, i # j PROVE place[i] # place[j]
    OBVIOUS
  <2>1. place[i] < place[j] \/ place[j] < place[i]
    BY <1>3
  <2>2. place[i] \in Int /\ place[j] \in Int
    BY <1>3
  <2>3. QED
    BY <2>1, <2>2
<1>6. \A k \in D : \E i \in D : place[i] = k
  <2>1. IsFiniteSet(D)
    <3>1. Len(events) \in Int /\ 1 \in Int
      BY <1>1
    <3>2. QED
      BY <3>1, FS_Interval
  <2>2. place \in Injection(D, D)
    BY <1>4, <1>5 DEF Injection, IsInjective
  <2> HIDE DEF D
  <2>3. place \in Surjection(D, D)
    BY <2>1, <2>2, FS_Injection
  <2>4. QED
    BY <2>3 DEF Surjection
<1>7. \A k \in D : at(k) \in D /\ place[at(k)] = k
  <2> SUFFICES ASSUME NEW k \in D PROVE at(k) \in D /\ place[at(k)] = k
    OBVIOUS
  <2>1. \A i \in D : place[i] = k <=> Cardinality(Preceding(events, i)) = k - 1
    <3> SUFFICES ASSUME NEW i \in D
                 PROVE  place[i] = k <=> Cardinality(Preceding(events, i)) = k - 1
      OBVIOUS
    <3> DEFINE c == Cardinality(Preceding(events, i))
    <3>1. place[i] = c + 1
      BY <1>3 DEF Place
    <3>2. c \in Nat
      <4>1. D \in SUBSET D /\ Preceding(events, i) \in SUBSET D
        BY <1>1 DEF Preceding
      <4>2. IsFiniteSet(D)
        <5>1. Len(events) \in Int /\ 1 \in Int
          BY <1>1
        <5>2. QED
          BY <5>1, FS_Interval
      <4> HIDE DEF D
      <4>3. QED
        BY <4>1, <4>2, FS_Subset, FS_CardinalityType
    <3> HIDE DEF c
    <3>3. k \in Int
      OBVIOUS
    <3>4. place[i] = k <=> c = k - 1
      BY <3>1, <3>2, <3>3
    <3>5. QED
      BY <3>4 DEF c
  <2>2. \E i \in D : Cardinality(Preceding(events, i)) = k - 1
    BY <1>6, <2>1
  <2>3. at(k) \in D /\ Cardinality(Preceding(events, at(k))) = k - 1
    BY <2>2
  <2> HIDE DEF at
  <2>4. QED
    BY <2>1, <2>3
<1> HIDE DEF at
<1> DEFINE sorted == [k \in D |-> events[at(k)]]
<1>8. sorted \in Seq(S) /\ Len(sorted) = Len(events) /\ DOMAIN sorted = D
  <2>1. \A k \in D : events[at(k)] \in S
    BY <1>1, <1>7
  <2>2. sorted \in [1 .. Len(events) -> S]
    BY <2>1
  <2>3. sorted \in Seq(S)
    BY <1>1, <2>2, SeqDef
  <2>4. QED
    BY <1>1, <2>3, LenProperties
<1>9. ToSet(sorted) = ToSet(events)
  <2>1. \A k \in D : sorted[k] = events[at(k)] /\ at(k) \in D
    BY <1>7
  <2>2. \A i \in D : place[i] \in D /\ at(place[i]) = i
    BY <1>3, <1>5, <1>7
  <2>3. \A i \in D : sorted[place[i]] = events[i]
    BY <2>1, <2>2
  <2>4. QED
    BY <1>1, <1>8, <2>1, <2>2, <2>3 DEF ToSet
<1>10. ASSUME NEW i \in D, NEW j \in D, i < j PROVE sorted[i].seq <= sorted[j].seq
  <2>1. at(i) \in D /\ at(j) \in D /\ place[at(i)] = i /\ place[at(j)] = j
    BY <1>7
  <2>2. at(j) \notin Preceding(events, at(i))
    <3>1. at(j) \in Preceding(events, at(i)) => j < i
      BY <1>3, <2>1
    <3>2. QED
      BY <1>10, <3>1
  <2>3. at(i) # at(j)
    BY <1>10, <2>1
  <2>4. at(i) \in Preceding(events, at(j))
    BY <1>3, <2>1, <2>2, <2>3
  <2>5. QED
    BY <1>3, <2>1, <2>4
<1>11. QED
  BY <1>2, <1>8, <1>9, <1>10


-----------------------------------------------------------------------------
(* Runs, snapshots and the items of the queue *)

Number == 0 .. MaxRecords + MaxSkew
EventOf(r) == [run : {r}, seq : Number, type : Type, engine : Engine]
Event == [run : Run, seq : Number, type : Type, engine : Engine]

Snapshot == [run : Run, context : {ContextOf[r] : r \in Run}, events : Seq(Event)]
Arrival == [type : Type, run : Snapshot] \cup {Sentinel}

Stored(r) == Len(eventsByRun[r])

(* The snapshot of run r when the n-th of its events arrived, and the item *)
(* that record put into the queue then.                                    *)
Upto(r, events, n) == MakeRun(r, Taken(events, n))
Item(r, events, n) == [type |-> events[n].type, run |-> Upto(r, events, n)]

(* How many events of run r the consumer was shown.                        *)
Seen(r) == IF last[r] = None THEN 0 ELSE Len(last[r].events)

EventsInv ==
  /\ eventsByRun \in [Run -> Seq(Event)]
  /\ \A r \in Run : eventsByRun[r] \in Seq(EventOf(r))

LEMMA TakenFacts ==
  ASSUME NEW S, NEW s \in Seq(S), NEW n \in 1 .. Len(s)
  PROVE  /\ Taken(s, n) \in Seq(S) /\ Taken(s, n - 1) \in Seq(S)
         /\ Len(Taken(s, n)) = n
         /\ s[n] \in S
         /\ Taken(s, n) = Append(Taken(s, n - 1), s[n])
         /\ ToSet(Taken(s, n - 1)) \subseteq ToSet(Taken(s, n))
         /\ Taken(s, Len(s)) = s
         /\ \A e \in S : /\ Taken(Append(s, e), n) = Taken(s, n)
                         /\ Append(s, e)[n] = s[n]
<1>1. /\ Len(s) \in Nat /\ n \in Nat /\ n \in 0 .. Len(s) /\ n - 1 \in 0 .. Len(s)
      /\ s[n] \in S /\ n - 1 \in Nat
  BY LenProperties, ElementOfSeq
<1>2. /\ Taken(s, n) \in Seq(S) /\ Len(Taken(s, n)) = n
      /\ \A i \in 1 .. n : Taken(s, n)[i] = s[i]
  BY <1>1, Split
<1>3. /\ Taken(s, n - 1) \in Seq(S) /\ Len(Taken(s, n - 1)) = n - 1
      /\ \A i \in 1 .. n - 1 : Taken(s, n - 1)[i] = s[i]
  <2> DEFINE k == n - 1
  <2>1. k \in 0 .. Len(s)
    BY <1>1
  <2> HIDE DEF k
  <2>2. /\ Taken(s, k) \in Seq(S) /\ Len(Taken(s, k)) = k
        /\ \A i \in 1 .. k : Taken(s, k)[i] = s[i]
    BY <2>1, Split
  <2>3. QED
    BY <2>2 DEF k
<1>4. Taken(s, n) = Append(Taken(s, n - 1), s[n])
  <2> DEFINE t == Append(Taken(s, n - 1), s[n])
  <2>1. /\ t \in Seq(S) /\ Len(t) = n
        /\ \A i \in 1 .. n - 1 : t[i] = s[i]
        /\ t[n] = s[n]
    <3> DEFINE u == Taken(s, n - 1)
    <3>1. u \in Seq(S) /\ Len(u) = n - 1 /\ \A i \in 1 .. n - 1 : u[i] = s[i]
      BY <1>3
    <3> HIDE DEF u
    <3>2. /\ Append(u, s[n]) \in Seq(S) /\ Len(Append(u, s[n])) = Len(u) + 1
          /\ \A i \in 1 .. Len(u) : Append(u, s[n])[i] = u[i]
          /\ Append(u, s[n])[Len(u) + 1] = s[n]
      BY <1>1, <3>1, AppendProperties
    <3>3. Len(u) + 1 = n
      BY <1>1, <3>1
    <3>4. QED
      BY <3>1, <3>2, <3>3 DEF u
  <2> HIDE DEF t
  <2>2. \A i \in 1 .. n : t[i] = Taken(s, n)[i]
    BY <1>1, <1>2, <2>1
  <2>3. t = Taken(s, n)
    BY <1>2, <2>1, <2>2, SeqEqual
  <2>4. QED
    BY <2>3 DEF t
<1>5. ToSet(Taken(s, n - 1)) \subseteq ToSet(Taken(s, n))
  <2>1. DOMAIN Taken(s, n) = 1 .. n /\ DOMAIN Taken(s, n - 1) = 1 .. n - 1
    BY <1>2, <1>3, LenProperties
  <2>2. \A i \in 1 .. n - 1 : i \in 1 .. n /\ Taken(s, n - 1)[i] = Taken(s, n)[i]
    BY <1>1, <1>2, <1>3
  <2>3. QED
    BY <2>1, <2>2 DEF ToSet
<1>6. Taken(s, Len(s)) = s
  BY SubSeqFull DEF Taken
<1>7. ASSUME NEW e \in S
      PROVE  Taken(Append(s, e), n) = Taken(s, n) /\ Append(s, e)[n] = s[n]
  <2>1. /\ Append(s, e) \in Seq(S) /\ Len(Append(s, e)) = Len(s) + 1
        /\ \A i \in 1 .. Len(s) : Append(s, e)[i] = s[i]
    BY AppendProperties
  <2> DEFINE t == Append(s, e)
  <2> HIDE DEF t
  <2>2. n \in 0 .. Len(t) /\ t \in Seq(S)
    BY <1>1, <2>1 DEF t
  <2>3. /\ Taken(t, n) \in Seq(S) /\ Len(Taken(t, n)) = n
        /\ \A i \in 1 .. n : Taken(t, n)[i] = t[i]
    BY <2>2, Split
  <2>4. \A i \in 1 .. n : Taken(t, n)[i] = Taken(s, n)[i]
    BY <1>1, <1>2, <2>1, <2>3 DEF t
  <2>5. Taken(t, n) = Taken(s, n)
    BY <1>2, <2>3, <2>4, SeqEqual
  <2>6. QED
    BY <2>1, <2>5 DEF t
<1>8. QED
  BY <1>1, <1>2, <1>3, <1>4, <1>5, <1>6, <1>7

LEMMA EventFacts ==
  /\ \A r \in Run : EventOf(r) \subseteq Event
  /\ \A e \in Event : e.seq \in Int
  /\ \A r \in Run : \A e \in EventOf(r) : e.seq \in Int /\ e.run = r /\ e.type \in Type
  BY DEF EventOf, Event, Number

LEMMA MakeRunFacts ==
  ASSUME NEW r \in Run, NEW events \in Seq(EventOf(r))
  PROVE  /\ MakeRun(r, events) \in Snapshot
         /\ MakeRun(r, events).run = r
         /\ Len(MakeRun(r, events).events) = Len(events)
         /\ ToSet(MakeRun(r, events).events) = ToSet(events)
         /\ MakeRun(r, events) # None
<1> DEFINE sorted == SortedBySequence(events)
<1>1. sorted \in Seq(EventOf(r)) /\ Len(sorted) = Len(events) /\ ToSet(sorted) = ToSet(events)
  BY EventFacts, Sorted
<1>2. sorted \in Seq(Event)
  <2>1. \A i \in 1 .. Len(sorted) : sorted[i] \in Event
    BY <1>1, ElementOfSeq, EventFacts
  <2>2. Len(sorted) \in Nat /\ sorted \in [1 .. Len(sorted) -> EventOf(r)]
    BY <1>1, LenProperties
  <2> HIDE DEF sorted
  <2>3. sorted \in [1 .. Len(sorted) -> Event]
    BY <2>1, <2>2
  <2>4. QED
    BY <2>2, <2>3, SeqDef
<1> HIDE DEF sorted
<1>3. MakeRun(r, events) = [run |-> r, context |-> ContextOf[r], events |-> sorted]
  BY DEF MakeRun, sorted
<1>4. MakeRun(r, events) # None
  <2>1. "events" \in DOMAIN MakeRun(r, events)
    BY <1>3
  <2>2. "events" \notin DOMAIN None
    BY DEF None
  <2>3. QED
    BY <2>1, <2>2
<1>5. QED
  BY <1>1, <1>2, <1>3, <1>4 DEF Snapshot

LEMMA ItemFacts ==
  ASSUME NEW r \in Run, NEW events \in Seq(EventOf(r)), NEW n \in 1 .. Len(events)
  PROVE  /\ Taken(events, n) \in Seq(EventOf(r)) /\ events[n] \in EventOf(r)
         /\ Upto(r, events, n) \in Snapshot /\ Upto(r, events, n) # None
         /\ Upto(r, events, n).run = r /\ Len(Upto(r, events, n).events) = n
         /\ ToSet(Upto(r, events, n).events) = ToSet(Taken(events, n))
         /\ Item(r, events, n) \in Arrival /\ Item(r, events, n) # Sentinel
         /\ Item(r, events, n).run = Upto(r, events, n)
         /\ Item(r, events, n).type = events[n].type
<1>1. /\ Taken(events, n) \in Seq(EventOf(r)) /\ Len(Taken(events, n)) = n
      /\ events[n] \in EventOf(r)
  BY TakenFacts
<1> DEFINE run == Upto(r, events, n)
           item == Item(r, events, n)
<1>2. /\ run \in Snapshot /\ run.run = r /\ Len(run.events) = n
      /\ ToSet(run.events) = ToSet(Taken(events, n)) /\ run # None
  BY <1>1, MakeRunFacts DEF Upto
<1> HIDE DEF run
<1>3. item = [type |-> events[n].type, run |-> run]
  BY DEF Item, run
<1> HIDE DEF item
<1>4. item \in Arrival
  BY <1>1, <1>2, <1>3, EventFacts DEF Arrival
<1>5. item # Sentinel
  <2>1. "run" \in DOMAIN item /\ "run" \notin DOMAIN Sentinel
    BY <1>3 DEF Sentinel
  <2>2. QED
    BY <2>1
<1>6. QED
  BY <1>1, <1>2, <1>3, <1>4, <1>5 DEF run, item

(* No two items are the same.                                              *)
LEMMA ItemsDiffer ==
  ASSUME NEW r \in Run, NEW e \in Seq(EventOf(r)), NEW n \in 1 .. Len(e),
         NEW q \in Run, NEW f \in Seq(EventOf(q)), NEW m \in 1 .. Len(f),
         Item(r, e, n) = Item(q, f, m)
  PROVE  r = q /\ n = m
<1>1. Upto(r, e, n) = Upto(q, f, m)
  BY ItemFacts
<1>2. /\ Upto(r, e, n).run = r /\ Len(Upto(r, e, n).events) = n
      /\ Upto(q, f, m).run = q /\ Len(Upto(q, f, m).events) = m
  BY ItemFacts
<1>3. QED
  BY <1>1, <1>2

-----------------------------------------------------------------------------
(* The queue between record and the consumer *)

(* What the queue holds: sentinels, and of every run exactly the items     *)
(* that the consumer was not shown yet, in the order of their arrival.     *)
QueueInv ==
  /\ queue \in Seq(Arrival)
  /\ \A i \in 1 .. Len(queue) :
       \/ queue[i] = Sentinel
       \/ \E r \in Run : \E n \in 1 .. Stored(r) : queue[i] = Item(r, eventsByRun[r], n)
  /\ \A r \in Run : \A n \in 1 .. Stored(r) :
       /\ n <= Seen(r) => \A i \in 1 .. Len(queue) : queue[i] # Item(r, eventsByRun[r], n)
       /\ n > Seen(r) => \E i \in 1 .. Len(queue) : queue[i] = Item(r, eventsByRun[r], n)
  /\ \A r \in Run : \A n, m \in 1 .. Stored(r) : \A i, j \in 1 .. Len(queue) :
       i < j /\ queue[i] = Item(r, eventsByRun[r], n) /\ queue[j] = Item(r, eventsByRun[r], m) => n < m

(* The last snapshot consumed of a run is one of its snapshots.            *)
SeenInv ==
  /\ last \in [Run -> Snapshot \cup {None}]
  /\ \A r \in Run : /\ Seen(r) \in 0 .. Stored(r)
                    /\ last[r] # None => Seen(r) # 0 /\ last[r] = Upto(r, eventsByRun[r], Seen(r))

ArriveInv == EventsInv /\ QueueInv /\ SeenInv

LEMMA InitArrive == Init => ArriveInv
<1> SUFFICES ASSUME Init PROVE ArriveInv
  OBVIOUS
<1>1. /\ eventsByRun = [r \in Run |-> <<>>] /\ queue = <<>> /\ last = [r \in Run |-> None]
  BY DEF Init
<1>2. EventsInv
  BY <1>1, EmptySeq DEF EventsInv
<1>3. \A r \in Run : Stored(r) = 0 /\ Seen(r) = 0 /\ last[r] = None
  BY <1>1 DEF Stored, Seen
<1>4. QueueInv
  BY <1>1, <1>3, EmptySeq DEF QueueInv
<1>5. SeenInv
  BY <1>1, <1>3 DEF SeenInv
<1>6. QED
  BY <1>2, <1>4, <1>5 DEF ArriveInv

(* Nothing that was recorded changes afterwards.                           *)
LEMMA RecordFacts ==
  ASSUME EventsInv, NEW r \in Run, NEW seq \in Number, NEW t \in Type, NEW g \in Engine,
         Record(r, seq, t, g)
  PROVE  /\ EventsInv'
         /\ Stored(r) \in Nat /\ Stored(r)' = Stored(r) + 1
         /\ eventsByRun'[r] =
              Append(eventsByRun[r], [run |-> r, seq |-> seq, type |-> t, engine |-> g])
         /\ \A q \in Run : q # r => eventsByRun'[q] = eventsByRun[q]
         /\ \A q \in Run : \A n \in 1 .. Stored(q) :
              /\ n \in 1 .. Stored(q)'
              /\ Item(q, eventsByRun'[q], n) = Item(q, eventsByRun[q], n)
              /\ Upto(q, eventsByRun'[q], n) = Upto(q, eventsByRun[q], n)
         /\ queue' = Append(queue, Item(r, eventsByRun'[r], Len(eventsByRun'[r])))
<1> DEFINE e == [run |-> r, seq |-> seq, type |-> t, engine |-> g]
           events == Append(eventsByRun[r], e)
<1>1. /\ eventsByRun' = [eventsByRun EXCEPT ![r] = events]
      /\ queue' = Append(queue, [type |-> t, run |-> MakeRun(r, events)])
  BY DEF Record, Put
<1>2. e \in EventOf(r) /\ e \in Event /\ e.type = t
  BY DEF EventOf, Event
<1> HIDE DEF e
<1>3. eventsByRun[r] \in Seq(EventOf(r)) /\ eventsByRun[r] \in Seq(Event)
  BY DEF EventsInv
<1>4. /\ events \in Seq(EventOf(r)) /\ Len(events) = Len(eventsByRun[r]) + 1
      /\ events[Len(eventsByRun[r]) + 1] = e
  BY <1>2, <1>3, AppendProperties
<1>5. events \in Seq(Event)
  BY <1>2, <1>3, AppendProperties
<1>6. eventsByRun'[r] = events /\ \A q \in Run : q # r => eventsByRun'[q] = eventsByRun[q]
  BY <1>1 DEF EventsInv
<1>7. EventsInv'
  BY <1>1, <1>4, <1>5, <1>6 DEF EventsInv
<1>8. Stored(r) \in Nat /\ Stored(r)' = Stored(r) + 1
  BY <1>3, <1>4, <1>6, LenProperties DEF Stored
<1>9. ASSUME NEW q \in Run, NEW n \in 1 .. Stored(q)
      PROVE  /\ n \in 1 .. Stored(q)'
             /\ Item(q, eventsByRun'[q], n) = Item(q, eventsByRun[q], n)
             /\ Upto(q, eventsByRun'[q], n) = Upto(q, eventsByRun[q], n)
  <2>1. CASE q # r
    BY <1>6, <2>1 DEF Stored, Item, Upto
  <2>2. CASE q = r
    <3>1. n \in 1 .. Len(eventsByRun[r])
      BY <2>2 DEF Stored
    <3>2. /\ Taken(events, n) = Taken(eventsByRun[r], n)
          /\ events[n] = eventsByRun[r][n]
      BY <1>2, <1>3, <3>1, TakenFacts
    <3> HIDE DEF events
    <3>3. /\ Item(q, eventsByRun'[q], n) = Item(q, eventsByRun[q], n)
          /\ Upto(q, eventsByRun'[q], n) = Upto(q, eventsByRun[q], n)
      BY <1>6, <2>2, <3>2 DEF Item, Upto
    <3>4. n \in 1 .. Stored(q)'
      BY <1>8, <2>2
    <3>5. QED
      BY <3>3, <3>4
  <2>3. QED
    BY <2>1, <2>2
<1>10. queue' = Append(queue, Item(r, eventsByRun'[r], Len(eventsByRun'[r])))
  <2>1. Taken(events, Len(events)) = events
    BY <1>4, SubSeqFull DEF Taken
  <2>2. events[Len(events)].type = t
    BY <1>2, <1>4
  <2> HIDE DEF events
  <2>3. Item(r, eventsByRun'[r], Len(events)) = [type |-> t, run |-> MakeRun(r, events)]
    BY <1>6, <2>1, <2>2 DEF Item, Upto
  <2>4. QED
    BY <1>1, <1>6, <2>3 DEF events
<1>11. QED
  BY <1>6, <1>7, <1>8, <1>9, <1>10 DEF e


LEMMA RecordArrive ==
  ASSUME ArriveInv, NEW r \in Run, NEW seq \in Number, NEW t \in Type, NEW g \in Engine,
         Record(r, seq, t, g)
  PROVE  ArriveInv'
<1>i. EventsInv /\ QueueInv /\ SeenInv
  BY DEF ArriveInv
<1>n. \A q \in Run : eventsByRun[q] \in Seq(EventOf(q)) /\ Stored(q) \in Nat
  BY <1>i, LenProperties DEF EventsInv, Stored
<1>0. PICK new : new = Stored(r) + 1
  OBVIOUS
<1> DEFINE arriving == Item(r, eventsByRun'[r], new)
<1>1. /\ EventsInv' /\ Stored(r)' = new
      /\ \A q \in Run : q # r => eventsByRun'[q] = eventsByRun[q]
      /\ \A q \in Run : \A n \in 1 .. Stored(q) :
           /\ n \in 1 .. Stored(q)'
           /\ Item(q, eventsByRun'[q], n) = Item(q, eventsByRun[q], n)
           /\ Upto(q, eventsByRun'[q], n) = Upto(q, eventsByRun[q], n)
      /\ new \in 1 .. Stored(r)'
      /\ queue' = Append(queue, arriving)
  <2>1. EventsInv
    BY <1>i
  <2>2. Stored(r)' = Stored(r) + 1
    BY <1>0, <2>1, RecordFacts
  <2>3. /\ EventsInv'
        /\ \A q \in Run : q # r => eventsByRun'[q] = eventsByRun[q]
    BY <1>0, <2>1, RecordFacts
  <2>4. \A q \in Run : \A n \in 1 .. Stored(q) :
           /\ n \in 1 .. Stored(q)'
           /\ Item(q, eventsByRun'[q], n) = Item(q, eventsByRun[q], n)
           /\ Upto(q, eventsByRun'[q], n) = Upto(q, eventsByRun[q], n)
    BY <1>0, <2>1, RecordFacts
  <2>5. queue' = Append(queue, Item(r, eventsByRun'[r], new))
    <3>1. new = Len(eventsByRun'[r])
      BY <1>0, <2>2 DEF Stored
    <3>2. queue' = Append(queue, Item(r, eventsByRun'[r], Len(eventsByRun'[r])))
      BY <2>1, RecordFacts
    <3>3. QED
      BY <3>1, <3>2
  <2>6. Stored(r) \in Nat
    BY <1>n
  <2>7. new \in 1 .. Stored(r)'
    BY <1>0, <2>2, <2>6
  <2>8. QED
    BY <1>0, <2>2, <2>3, <2>4, <2>5, <2>7
<1>2. last' = last /\ \A q \in Run : Seen(q)' = Seen(q)
  BY DEF Record, seenVars, Seen
<1>3. /\ \A q \in Run : eventsByRun'[q] \in Seq(EventOf(q))
      /\ \A q \in Run : Stored(q)' = Len(eventsByRun'[q])
  BY <1>1 DEF EventsInv, Stored
<1>4. \A q \in Run : \A n \in 1 .. Stored(q)' : n \in 1 .. Stored(q) \/ (q = r /\ n = new)
  <2>1. \A q \in Run : q # r => Stored(q)' = Stored(q)
    BY <1>1 DEF Stored
  <2>2. QED
    BY <1>0, <1>n, <1>1, <2>1
<1>5. arriving \in Arrival /\ arriving # Sentinel
  BY <1>1, <1>3, ItemFacts
<1>6. ASSUME NEW q \in Run, NEW n \in 1 .. Stored(q)', Item(q, eventsByRun'[q], n) = arriving
      PROVE  q = r /\ n = new
  <2>1. /\ n \in 1 .. Len(eventsByRun'[q]) /\ new \in 1 .. Len(eventsByRun'[r])
        /\ eventsByRun'[q] \in Seq(EventOf(q)) /\ eventsByRun'[r] \in Seq(EventOf(r))
    BY <1>1, <1>3
  <2>2. QED
    BY <1>6, <2>1, ItemsDiffer
<1>7. new \in Nat /\ Seen(r) < new /\ ~ (new \in 1 .. Stored(r))
  BY <1>0, <1>i, <1>n DEF SeenInv
<1> HIDE DEF arriving
<1> DEFINE N == Len(queue)
<1>8. /\ queue' \in Seq(Arrival) /\ Len(queue') = N + 1 /\ N \in Nat
      /\ \A i \in 1 .. N : queue'[i] = queue[i]
      /\ queue'[N + 1] = arriving
  BY <1>i, <1>1, <1>5, AppendProperties, LenProperties DEF QueueInv
<1>9. ASSUME NEW i \in 1 .. N, queue[i] # Sentinel
      PROVE  \E q \in Run : \E n \in 1 .. Stored(q) :
               queue[i] = Item(q, eventsByRun'[q], n) /\ queue[i] # arriving
  <2>0. PICK q \in Run : \E n \in 1 .. Stored(q) : queue[i] = Item(q, eventsByRun[q], n)
    BY <1>i, <1>9 DEF QueueInv, N
  <2>1. PICK n \in 1 .. Stored(q) : queue[i] = Item(q, eventsByRun[q], n)
    BY <2>0
  <2>2. queue[i] = Item(q, eventsByRun'[q], n) /\ n \in 1 .. Stored(q)'
    BY <1>1, <2>1
  <2>3. queue[i] # arriving
    BY <1>6, <1>7, <2>2
  <2>4. QED
    BY <2>2, <2>3
<1>10. ASSUME NEW i \in 1 .. N PROVE queue[i] # arriving
  BY <1>5, <1>9
<1> HIDE DEF N
<1>11. \A i \in 1 .. Len(queue') : (i \in 1 .. N /\ queue'[i] = queue[i]) \/ (i = N + 1 /\ queue'[i] = arriving)
  BY <1>8
<1>12. ASSUME NEW i \in 1 .. Len(queue')
       PROVE  \/ queue'[i] = Sentinel
              \/ \E q \in Run : \E n \in 1 .. Stored(q)' : queue'[i] = Item(q, eventsByRun'[q], n)
  <2>1. CASE i \in 1 .. N /\ queue'[i] = queue[i]
    BY <1>1, <1>9, <2>1
  <2>2. CASE queue'[i] = arriving
    BY <1>1, <2>2 DEF arriving
  <2>3. QED
    BY <1>11, <2>1, <2>2
<1>13. ASSUME NEW q \in Run, NEW n \in 1 .. Stored(q)', n <= Seen(q),
              NEW i \in 1 .. Len(queue')
       PROVE  queue'[i] # Item(q, eventsByRun'[q], n)
  <2>1. n \in 1 .. Stored(q)
    BY <1>n, <1>4, <1>7, <1>13, <1>i DEF SeenInv
  <2>2. Item(q, eventsByRun'[q], n) = Item(q, eventsByRun[q], n)
    BY <1>1, <2>1
  <2>3. CASE i \in 1 .. N /\ queue'[i] = queue[i]
    BY <1>i, <1>13, <2>1, <2>2, <2>3 DEF QueueInv, N
  <2>4. CASE queue'[i] = arriving
    BY <1>6, <1>7, <2>1, <2>4
  <2>5. QED
    BY <1>11, <2>3, <2>4
<1>14. ASSUME NEW q \in Run, NEW n \in 1 .. Stored(q)', n > Seen(q)
       PROVE  \E i \in 1 .. Len(queue') : queue'[i] = Item(q, eventsByRun'[q], n)
  <2>1. CASE n \in 1 .. Stored(q)
    <3>1. PICK i \in 1 .. N : queue[i] = Item(q, eventsByRun[q], n)
      BY <1>i, <1>14, <2>1 DEF QueueInv, N
    <3>2. i \in 1 .. Len(queue') /\ queue'[i] = queue[i]
      BY <1>8
    <3>3. QED
      BY <1>1, <2>1, <3>1, <3>2
  <2>2. CASE q = r /\ n = new
    <3>1. N + 1 \in 1 .. Len(queue')
      BY <1>8
    <3>2. QED
      BY <1>8, <2>2, <3>1 DEF arriving
  <2>3. QED
    BY <1>4, <2>1, <2>2
<1>15. ASSUME NEW q \in Run, NEW n \in 1 .. Stored(q)', NEW m \in 1 .. Stored(q)',
              NEW i \in 1 .. Len(queue'), NEW j \in 1 .. Len(queue'), i < j,
              queue'[i] = Item(q, eventsByRun'[q], n), queue'[j] = Item(q, eventsByRun'[q], m)
       PROVE  n < m
  <2>1. i \in 1 .. N /\ queue'[i] = queue[i]
    BY <1>8, <1>15
  <2>2. n \in 1 .. Stored(q)
    BY <1>4, <1>10, <1>15, <2>1 DEF arriving
  <2>3. CASE j \in 1 .. N /\ queue'[j] = queue[j]
    <3>1. m \in 1 .. Stored(q)
      BY <1>4, <1>10, <1>15, <2>3 DEF arriving
    <3>2. queue[i] = Item(q, eventsByRun[q], n) /\ queue[j] = Item(q, eventsByRun[q], m)
      BY <1>1, <1>15, <2>1, <2>2, <2>3, <3>1
    <3>3. QED
      BY <1>i, <1>15, <2>1, <2>2, <2>3, <3>1, <3>2 DEF QueueInv, N
  <2>4. CASE queue'[j] = arriving
    <3>1. q = r /\ m = new
      BY <1>6, <1>15, <2>4
    <3>2. n <= Stored(r) /\ new = Stored(r) + 1
      BY <1>0, <1>n, <2>2, <3>1
    <3>3. QED
      BY <1>n, <2>2, <3>1, <3>2
  <2>5. QED
    BY <1>11, <2>3, <2>4
<1>16. QueueInv'
  BY <1>2, <1>8, <1>12, <1>13, <1>14, <1>15 DEF QueueInv
<1>17. SeenInv'
  <2>1. ASSUME NEW q \in Run
        PROVE  /\ Seen(q) \in 0 .. Stored(q)'
               /\ last[q] # None => Seen(q) # 0 /\ last[q] = Upto(q, eventsByRun'[q], Seen(q))
    <3>1. /\ Seen(q) \in 0 .. Stored(q)
          /\ last[q] # None => Seen(q) # 0 /\ last[q] = Upto(q, eventsByRun[q], Seen(q))
      BY <1>i DEF SeenInv
    <3>2. Seen(q) \in 0 .. Stored(q)'
      <4>1. CASE q # r
        BY <1>1, <3>1, <4>1 DEF Stored
      <4>2. CASE q = r
        BY <1>0, <1>n, <1>1, <3>1, <4>2
      <4>3. QED
        BY <4>1, <4>2
    <3>3. Seen(q) # 0 => Upto(q, eventsByRun'[q], Seen(q)) = Upto(q, eventsByRun[q], Seen(q))
      <4>1. Seen(q) # 0 => Seen(q) \in 1 .. Stored(q)
        BY <1>n, <3>1
      <4>2. QED
        BY <1>1, <4>1
    <3>4. QED
      BY <3>1, <3>2, <3>3
  <2>2. QED
    BY <1>i, <1>2, <2>1 DEF SeenInv
<1>18. QED
  BY <1>1, <1>16, <1>17 DEF ArriveInv


(* The consumer meets the snapshots of a run one after the other.          *)
LEMMA HeadIsNext ==
  ASSUME ArriveInv, queue # <<>>, Head(queue) # Sentinel
  PROVE  \E r \in Run : /\ Seen(r) \in Nat /\ Seen(r) + 1 \in 1 .. Stored(r)
                        /\ Head(queue) = Item(r, eventsByRun[r], Seen(r) + 1)
<1>i. EventsInv /\ QueueInv /\ SeenInv
  BY DEF ArriveInv
<1> DEFINE N == Len(queue)
<1>1. Head(queue) = queue[1] /\ 1 \in 1 .. N /\ N \in Nat
  BY <1>i, HeadTailProperties, LenProperties DEF QueueInv
<1> HIDE DEF N
<1>2. PICK r \in Run : \E n \in 1 .. Stored(r) : queue[1] = Item(r, eventsByRun[r], n)
  BY <1>i, <1>1 DEF QueueInv, N
<1>3. PICK n \in 1 .. Stored(r) : queue[1] = Item(r, eventsByRun[r], n)
  BY <1>2
<1>4. eventsByRun[r] \in Seq(EventOf(r)) /\ Stored(r) = Len(eventsByRun[r]) /\ Stored(r) \in Nat
  BY <1>i, LenProperties DEF EventsInv, Stored
<1>5. Seen(r) \in Nat /\ Seen(r) <= Stored(r)
  BY <1>i, <1>4 DEF SeenInv
<1>6. n > Seen(r)
  <2>1. n <= Seen(r) => queue[1] # Item(r, eventsByRun[r], n)
    BY <1>i, <1>1 DEF QueueInv, N
  <2>2. QED
    BY <1>3, <1>4, <1>5, <2>1
<1>7. n = Seen(r) + 1
  <2> SUFFICES ASSUME n # Seen(r) + 1 PROVE FALSE
    OBVIOUS
  <2>1. PICK m \in 1 .. Stored(r) : m = Seen(r) + 1 /\ m > Seen(r) /\ m < n
    BY <1>4, <1>5, <1>6
  <2>2. PICK i \in 1 .. N : queue[i] = Item(r, eventsByRun[r], m)
    BY <1>i, <2>1 DEF QueueInv, N
  <2>3. i # 1
    <3>1. Item(r, eventsByRun[r], m) # Item(r, eventsByRun[r], n)
      BY <1>4, <2>1, ItemsDiffer
    <3>2. QED
      BY <1>3, <2>2, <3>1
  <2>4. 1 < i
    BY <1>1, <2>3
  <2>5. n < m
    BY <1>i, <1>1, <1>3, <2>2, <2>4 DEF QueueInv, N
  <2>6. QED
    BY <1>4, <2>1, <2>5
<1>8. QED
  BY <1>1, <1>3, <1>5, <1>7

LEMMA PopArrive ==
  ASSUME ArriveInv, queue # <<>>, queue' = Tail(queue), eventsByRun' = eventsByRun,
         Head(queue) = Sentinel => last' = last,
         Head(queue) # Sentinel =>
           last' = [last EXCEPT ![Head(queue).run.run] = Head(queue).run]
  PROVE  ArriveInv'
<1>i. EventsInv /\ QueueInv /\ SeenInv
  BY DEF ArriveInv
<1> DEFINE N == Len(queue)
           item(q, n) == Item(q, eventsByRun[q], n)
<1>1. /\ N \in Nat /\ 1 \in 1 .. N /\ Head(queue) = queue[1]
      /\ queue' \in Seq(Arrival) /\ Len(queue') = N - 1
      /\ \A i \in 1 .. Len(queue') : i + 1 \in 1 .. N /\ queue'[i] = queue[i + 1]
  <2>1. queue \in Seq(Arrival) /\ N \in Nat
    BY <1>i, LenProperties DEF QueueInv
  <2>2. /\ Head(queue) = queue[1] /\ Tail(queue) \in Seq(Arrival)
        /\ Len(Tail(queue)) = N - 1
        /\ \A i \in 1 .. Len(Tail(queue)) : Tail(queue)[i] = queue[i + 1]
    BY <2>1, HeadTailProperties
  <2>3. Len(Tail(queue)) \in Nat
    BY <2>2, LenProperties
  <2> HIDE DEF N
  <2>4. QED
    BY <2>1, <2>2, <2>3
<1>2. \A q \in Run : /\ eventsByRun[q] \in Seq(EventOf(q)) /\ Stored(q) \in Nat
                     /\ Stored(q) = Len(eventsByRun[q])
                     /\ Seen(q) \in Nat /\ Seen(q) <= Stored(q)
                     /\ Stored(q)' = Stored(q)
  BY <1>i, LenProperties DEF EventsInv, SeenInv, Stored
<1> HIDE DEF N
<1>3. /\ SeenInv'
      /\ \A q \in Run : \A n \in 1 .. Stored(q) :
           n <= Seen(q)' <=> n <= Seen(q) \/ queue[1] = item(q, n)
  <2>1. CASE Head(queue) = Sentinel
    <3>1. last' = last /\ \A q \in Run : Seen(q)' = Seen(q)
      BY <2>1 DEF Seen
    <3>2. \A q \in Run : \A n \in 1 .. Stored(q) : queue[1] # item(q, n)
      BY <1>1, <1>2, <2>1, ItemFacts
    <3>3. SeenInv'
      BY <1>i, <3>1 DEF SeenInv, Stored
    <3>4. QED
      BY <3>1, <3>2, <3>3
  <2>2. CASE Head(queue) # Sentinel
    <3>1. PICK r \in Run : /\ Seen(r) \in Nat /\ Seen(r) + 1 \in 1 .. Stored(r)
                           /\ Head(queue) = item(r, Seen(r) + 1)
      BY <2>2, HeadIsNext
    <3>2. PICK next \in 1 .. Stored(r) : next = Seen(r) + 1
      BY <3>1
    <3> DEFINE snapshot == Upto(r, eventsByRun[r], next)
    <3>3. /\ Head(queue).run = snapshot /\ snapshot.run = r /\ snapshot # None
          /\ snapshot \in Snapshot /\ Len(snapshot.events) = next
      BY <1>2, <3>1, <3>2, ItemFacts
    <3> HIDE DEF snapshot
    <3>4. /\ last' = [last EXCEPT ![r] = snapshot]
          /\ last \in [Run -> Snapshot \cup {None}]
      BY <1>i, <2>2, <3>3 DEF SeenInv
    <3>5. /\ last'[r] = snapshot /\ \A q \in Run : q # r => last'[q] = last[q]
          /\ last' \in [Run -> Snapshot \cup {None}]
      BY <3>3, <3>4
    <3>6. Seen(r)' = next /\ \A q \in Run : q # r => Seen(q)' = Seen(q)
      BY <3>3, <3>5 DEF Seen
    <3>7. SeenInv'
      <4>1. ASSUME NEW q \in Run
            PROVE  /\ Seen(q)' \in 0 .. Stored(q)'
                   /\ last'[q] # None =>
                        Seen(q)' # 0 /\ last'[q] = Upto(q, eventsByRun'[q], Seen(q)')
        <5>1. CASE q = r
          BY <1>2, <3>2, <3>3, <3>5, <3>6, <5>1 DEF snapshot
        <5>2. CASE q # r
          BY <1>i, <1>2, <3>5, <3>6, <5>2 DEF SeenInv
        <5>3. QED
          BY <5>1, <5>2
      <4>2. QED
        BY <3>5, <4>1 DEF SeenInv
    <3>8. ASSUME NEW q \in Run, NEW n \in 1 .. Stored(q)
          PROVE  n <= Seen(q)' <=> n <= Seen(q) \/ queue[1] = item(q, n)
      <4>1. queue[1] = item(q, n) <=> q = r /\ n = next
        <5>1. queue[1] = item(r, next)
          BY <1>1, <3>1, <3>2
        <5>2. item(q, n) = item(r, next) => q = r /\ n = next
          BY <1>2, ItemsDiffer
        <5>3. QED
          BY <5>1, <5>2
      <4> HIDE DEF item
      <4>2. CASE q # r
        BY <3>6, <4>1, <4>2
      <4>3. CASE q = r
        <5>1. n \in Nat /\ Seen(r) \in Nat /\ next = Seen(r) + 1
          BY <1>2, <3>2
        <5>2. Seen(q)' = next /\ Seen(q) = Seen(r)
          BY <3>6, <4>3
        <5>3. n <= next <=> n <= Seen(r) \/ n = next
          BY <5>1
        <5>4. QED
          BY <4>1, <4>3, <5>2, <5>3
      <4>4. QED
        BY <4>2, <4>3
    <3>9. QED
      BY <3>7, <3>8
  <2>3. QED
    BY <2>1, <2>2
<1>4. ASSUME NEW q \in Run, NEW n \in 1 .. Stored(q)
      PROVE  Item(q, eventsByRun'[q], n) = item(q, n) /\ Seen(q)' \in Nat
  BY <1>3 DEF SeenInv
<1>5. ASSUME NEW i \in 1 .. Len(queue')
      PROVE  \/ queue'[i] = Sentinel
             \/ \E q \in Run : \E n \in 1 .. Stored(q)' : queue'[i] = Item(q, eventsByRun'[q], n)
  <2>1. \/ queue[i + 1] = Sentinel
        \/ \E q \in Run : \E n \in 1 .. Stored(q) : queue[i + 1] = item(q, n)
    BY <1>i, <1>1 DEF QueueInv, N
  <2>2. QED
    BY <1>1, <1>2, <1>4, <2>1
<1>6. ASSUME NEW q \in Run, NEW n \in 1 .. Stored(q), n <= Seen(q)',
             NEW i \in 1 .. Len(queue')
      PROVE  queue'[i] # item(q, n)
  <2>1. i + 1 \in 1 .. N /\ queue'[i] = queue[i + 1] /\ 1 < i + 1
    BY <1>1
  <2>2. CASE n <= Seen(q)
    BY <1>i, <2>1, <2>2 DEF QueueInv, N
  <2>3. CASE queue[1] = item(q, n)
    <3>1. queue[i + 1] = item(q, n) => n < n
      BY <1>i, <1>1, <2>1, <2>3 DEF QueueInv, N
    <3>2. QED
      BY <1>2, <2>1, <3>1
  <2>4. QED
    BY <1>3, <1>6, <2>2, <2>3
<1>7. ASSUME NEW q \in Run, NEW n \in 1 .. Stored(q), n > Seen(q)'
      PROVE  \E i \in 1 .. Len(queue') : queue'[i] = item(q, n)
  <2>1. n > Seen(q) /\ queue[1] # item(q, n)
    <3>1. ~ (n <= Seen(q)')
      BY <1>2, <1>4, <1>7
    <3>2. ~ (n <= Seen(q)) /\ queue[1] # item(q, n)
      BY <1>3, <3>1
    <3>3. QED
      BY <1>2, <3>2
  <2>2. PICK i \in 1 .. N : queue[i] = item(q, n)
    BY <1>i, <2>1 DEF QueueInv, N
  <2>3. i # 1
    BY <2>1, <2>2
  <2>4. PICK j \in 1 .. Len(queue') : i = j + 1
    BY <1>1, <2>3
  <2>5. QED
    BY <1>1, <2>2, <2>4
<1>8. ASSUME NEW q \in Run, NEW n \in 1 .. Stored(q), NEW m \in 1 .. Stored(q),
             NEW i \in 1 .. Len(queue'), NEW j \in 1 .. Len(queue'), i < j,
             queue'[i] = item(q, n), queue'[j] = item(q, m)
      PROVE  n < m
  <2>1. /\ i + 1 \in 1 .. N /\ j + 1 \in 1 .. N /\ i + 1 < j + 1
        /\ queue[i + 1] = item(q, n) /\ queue[j + 1] = item(q, m)
    BY <1>1, <1>8
  <2>2. QED
    BY <1>i, <2>1 DEF QueueInv, N
<1>9. QueueInv'
  <2> HIDE DEF item
  <2>1. \A q \in Run : \A n \in 1 .. Stored(q)' : n \in 1 .. Stored(q)
    BY <1>2
  <2>2. \A q \in Run : \A n \in 1 .. Stored(q)' :
          /\ n <= Seen(q)' => \A i \in 1 .. Len(queue') : queue'[i] # Item(q, eventsByRun'[q], n)
          /\ n > Seen(q)' => \E i \in 1 .. Len(queue') : queue'[i] = Item(q, eventsByRun'[q], n)
    BY <1>4, <1>6, <1>7, <2>1
  <2>3. \A q \in Run : \A n, m \in 1 .. Stored(q)' : \A i, j \in 1 .. Len(queue') :
          /\ i < j /\ queue'[i] = Item(q, eventsByRun'[q], n)
          /\ queue'[j] = Item(q, eventsByRun'[q], m)
          => n < m
    BY <1>4, <1>8, <2>1
  <2>4. QED
    BY <1>1, <1>5, <2>2, <2>3 DEF QueueInv
<1>10. EventsInv'
  BY <1>i DEF EventsInv
<1>11. QED
  BY <1>3, <1>9, <1>10 DEF ArriveInv


LEMMA CloseArrive == ArriveInv /\ Close => ArriveInv'
<1> SUFFICES ASSUME ArriveInv, Close PROVE ArriveInv'
  OBVIOUS
<1>i. EventsInv /\ QueueInv /\ SeenInv
  BY DEF ArriveInv
<1> DEFINE N == Len(queue)
           item(q, n) == Item(q, eventsByRun[q], n)
<1>1. queue' = Append(queue, Sentinel) /\ eventsByRun' = eventsByRun /\ last' = last
  BY DEF Close, storeVars, seenVars
<1>2. /\ queue' \in Seq(Arrival) /\ Len(queue') = N + 1 /\ N \in Nat
      /\ \A i \in 1 .. N : queue'[i] = queue[i]
      /\ queue'[N + 1] = Sentinel
  <2>1. Sentinel \in Arrival
    BY DEF Arrival
  <2>2. QED
    BY <1>i, <1>1, <2>1, AppendProperties, LenProperties DEF QueueInv
<1>3. \A q \in Run : /\ eventsByRun[q] \in Seq(EventOf(q)) /\ Stored(q)' = Stored(q)
                     /\ Seen(q)' = Seen(q) /\ Stored(q) = Len(eventsByRun[q])
  BY <1>i, <1>1 DEF EventsInv, Stored, Seen
<1>4. \A q \in Run : \A n \in 1 .. Stored(q) : /\ Item(q, eventsByRun'[q], n) = item(q, n)
                                               /\ item(q, n) # Sentinel
  BY <1>1, <1>3, ItemFacts
<1> HIDE DEF N, item
<1>5. \A i \in 1 .. Len(queue') : (i \in 1 .. N /\ queue'[i] = queue[i]) \/ (i = N + 1 /\ queue'[i] = Sentinel)
  BY <1>2
<1>6. \A i \in 1 .. Len(queue') :
        \/ queue'[i] = Sentinel
        \/ \E q \in Run : \E n \in 1 .. Stored(q) : queue'[i] = item(q, n)
  BY <1>i, <1>5 DEF QueueInv, N, item
<1>7. ASSUME NEW q \in Run, NEW n \in 1 .. Stored(q)
      PROVE  /\ n <= Seen(q) => \A i \in 1 .. Len(queue') : queue'[i] # item(q, n)
             /\ n > Seen(q) => \E i \in 1 .. Len(queue') : queue'[i] = item(q, n)
  <2>1. /\ n <= Seen(q) => \A i \in 1 .. N : queue[i] # item(q, n)
        /\ n > Seen(q) => \E i \in 1 .. N : queue[i] = item(q, n)
    BY <1>i DEF QueueInv, N, item
  <2>2. \A i \in 1 .. N : i \in 1 .. Len(queue') /\ queue'[i] = queue[i]
    BY <1>2
  <2>3. QED
    BY <1>4, <1>5, <2>1, <2>2
<1>8. ASSUME NEW q \in Run, NEW n \in 1 .. Stored(q), NEW m \in 1 .. Stored(q),
             NEW i \in 1 .. Len(queue'), NEW j \in 1 .. Len(queue'), i < j,
             queue'[i] = item(q, n), queue'[j] = item(q, m)
      PROVE  n < m
  <2>1. i \in 1 .. N /\ j \in 1 .. N /\ queue[i] = item(q, n) /\ queue[j] = item(q, m)
    BY <1>4, <1>5, <1>8
  <2>2. QED
    BY <1>i, <1>8, <2>1 DEF QueueInv, N, item
<1>9. QueueInv'
  <2>1. \A i \in 1 .. Len(queue') :
          \/ queue'[i] = Sentinel
          \/ \E q \in Run : \E n \in 1 .. Stored(q)' : queue'[i] = Item(q, eventsByRun'[q], n)
    BY <1>3, <1>4, <1>6
  <2>2. \A q \in Run : \A n \in 1 .. Stored(q)' :
          /\ n <= Seen(q)' => \A i \in 1 .. Len(queue') : queue'[i] # Item(q, eventsByRun'[q], n)
          /\ n > Seen(q)' => \E i \in 1 .. Len(queue') : queue'[i] = Item(q, eventsByRun'[q], n)
    BY <1>3, <1>4, <1>7
  <2>3. \A q \in Run : \A n, m \in 1 .. Stored(q)' : \A i, j \in 1 .. Len(queue') :
          /\ i < j /\ queue'[i] = Item(q, eventsByRun'[q], n)
          /\ queue'[j] = Item(q, eventsByRun'[q], m)
          => n < m
    BY <1>3, <1>4, <1>8
  <2>4. QED
    BY <1>2, <2>1, <2>2, <2>3 DEF QueueInv
<1>10. EventsInv' /\ SeenInv'
  BY <1>i, <1>1, <1>3 DEF EventsInv, SeenInv
<1>11. QED
  BY <1>9, <1>10 DEF ArriveInv

(* One evaluation takes the item at the head and shows its snapshot.       *)
LEMMA ProcessShows ==
  ASSUME NEW done \in SUBSET Sub, NEW raised \in BOOLEAN, Process(done, raised)
  PROVE  /\ queue # <<>> /\ Head(queue) # Sentinel /\ queue' = Tail(queue)
         /\ consumer = "running" /\ consumer' = "running"
         /\ last' = [last EXCEPT ![Head(queue).run.run] = Head(queue).run]
         /\ UNCHANGED <<eventsByRun, index, edges, closing, subscribed, impacted, globals, owed>>
  BY DEF Process, ConsumerAfter, storeVars

Quiet == UNCHANGED <<eventsByRun, queue, last, consumer, owed>>

(* Every step records, shows the head of the queue, closes, or leaves      *)
(* events, queue and snapshots alone.                                      *)
LEMMA StepKinds ==
  ASSUME [Next]_vars
  PROVE  \/ \E r \in Run, seq \in Number, t \in Type, g \in Engine : Record(r, seq, t, g)
         \/ \E done \in SUBSET Sub, raised \in BOOLEAN : Process(done, raised)
         \/ TakeSentinel
         \/ Close
         \/ Quiet /\ (closing' = closing \/ CloseReturns)
<1>1. CASE vars' = vars
  BY <1>1 DEF vars, storeVars, seenVars, Quiet
<1>2. ASSUME NEW r \in Run, NEW seq \in 0 .. MaxRecords + MaxSkew, NEW k \in Kind,
             Record(r, seq, k[1], k[2])
      PROVE  \E t \in Type, g \in Engine : Record(r, seq, t, g)
  <2>1. k[1] \in Type /\ k[2] \in Engine
    BY LiveAssumption
  <2>2. QED
    BY <1>2, <2>1
<1>3. ASSUME NEW source \in Node, NEW target \in Node, Link(source, target, "INFORMED")
      PROVE  Quiet /\ closing' = closing
  BY <1>3 DEF Link, Quiet, seenVars
<1>4. ASSUME NEW s \in Late, Register(s) PROVE Quiet /\ closing' = closing
  BY <1>4 DEF Register, Quiet, storeVars
<1>5. CASE CloseReturns
  BY <1>5 DEF CloseReturns, Quiet, storeVars, seenVars
<1>6. QED
  BY <1>1, <1>2, <1>3, <1>4, <1>5 DEF Next, Number, Consume

LEMMA ArriveStep == ArriveInv /\ [Next]_vars => ArriveInv'
<1> SUFFICES ASSUME ArriveInv, [Next]_vars PROVE ArriveInv'
  OBVIOUS
<1>1. CASE \E r \in Run, seq \in Number, t \in Type, g \in Engine : Record(r, seq, t, g)
  BY <1>1, RecordArrive
<1>2. CASE \E done \in SUBSET Sub, raised \in BOOLEAN : Process(done, raised)
  <2>1. /\ queue # <<>> /\ Head(queue) # Sentinel /\ queue' = Tail(queue)
        /\ last' = [last EXCEPT ![Head(queue).run.run] = Head(queue).run]
        /\ eventsByRun' = eventsByRun
    BY <1>2, ProcessShows
  <2>2. QED
    BY <2>1, PopArrive
<1>3. CASE TakeSentinel
  <2>1. /\ queue # <<>> /\ Head(queue) = Sentinel /\ queue' = Tail(queue)
        /\ last' = last /\ eventsByRun' = eventsByRun
    BY <1>3 DEF TakeSentinel, storeVars, seenVars
  <2>2. QED
    BY <2>1, PopArrive
<1>4. CASE Close
  BY <1>4, CloseArrive
<1>5. CASE Quiet
  <2>1. eventsByRun' = eventsByRun /\ queue' = queue /\ last' = last
    BY <1>5 DEF Quiet
  <2>2. QED
    BY <2>1 DEF ArriveInv, EventsInv, QueueInv, SeenInv, Stored, Seen
<1>6. QED
  BY <1>1, <1>2, <1>3, <1>4, <1>5, StepKinds

LEMMA Arriving == Spec => []ArriveInv
<1>1. QED
  BY InitArrive, ArriveStep, PTL DEF Spec

(* The snapshots of a run that the consumer evaluates only ever gain       *)
(* events, although several threads record it and number its events before *)
(* they record them (SnapshotsGrow).                                       *)
THEOREM SnapshotsInOrder == Spec => SnapshotsGrow
<1> DEFINE Grows == \A r \in Run : last[r] # None =>
                      ToSet(last[r].events) \subseteq ToSet(last'[r].events)
<1>1. ASSUME ArriveInv, [Next]_vars PROVE [Grows]_vars
  <2>i. EventsInv /\ QueueInv /\ SeenInv
    BY <1>1 DEF ArriveInv
  <2>1. CASE last' = last
    BY <2>1
  <2>2. CASE \E done \in SUBSET Sub, raised \in BOOLEAN : Process(done, raised)
    <3>1. /\ queue # <<>> /\ Head(queue) # Sentinel
          /\ last' = [last EXCEPT ![Head(queue).run.run] = Head(queue).run]
      BY <2>2, ProcessShows
    <3>2. PICK r \in Run : /\ Seen(r) \in Nat /\ Seen(r) + 1 \in 1 .. Stored(r)
                           /\ Head(queue) = Item(r, eventsByRun[r], Seen(r) + 1)
      BY <1>1, <3>1, HeadIsNext
    <3>3. PICK next \in 1 .. Stored(r) : next = Seen(r) + 1
      BY <3>2
    <3> DEFINE events == eventsByRun[r]
               snapshot == Upto(r, events, next)
    <3>4. events \in Seq(EventOf(r)) /\ Stored(r) = Len(events)
      BY <2>i DEF EventsInv, Stored
    <3>5. /\ Head(queue).run = snapshot /\ snapshot.run = r
          /\ ToSet(snapshot.events) = ToSet(Taken(events, next))
      BY <3>2, <3>3, <3>4, ItemFacts
    <3>6. last' = [last EXCEPT ![r] = snapshot]
      BY <3>1, <3>5
    <3>7. last'[r] = snapshot /\ \A q \in Run : q # r => last'[q] = last[q]
      BY <2>i, <3>6 DEF SeenInv
    <3>8. last[r] # None => ToSet(last[r].events) \subseteq ToSet(last'[r].events)
      <4> SUFFICES ASSUME last[r] # None
                   PROVE  ToSet(last[r].events) \subseteq ToSet(snapshot.events)
        BY <3>7
      <4>1. PICK before \in 1 .. Stored(r) : before = Seen(r) /\ before = next - 1
        BY <2>i, <3>2, <3>3 DEF SeenInv
      <4>2. last[r] = Upto(r, events, before)
        BY <2>i, <4>1 DEF SeenInv
      <4>3. ToSet(last[r].events) = ToSet(Taken(events, before))
        BY <3>4, <4>1, <4>2, ItemFacts, SMTT(30)
      <4>4. ToSet(Taken(events, next - 1)) \subseteq ToSet(Taken(events, next))
        BY <3>4, TakenFacts
      <4>5. QED
        BY <3>5, <4>1, <4>3, <4>4
    <3>9. QED
      BY <3>7, <3>8
  <2>3. \/ last' = last
        \/ \E done \in SUBSET Sub, raised \in BOOLEAN : Process(done, raised)
    BY <1>1, StepKinds DEF Record, TakeSentinel, Close, Quiet, seenVars
  <2>4. QED
    BY <2>1, <2>2, <2>3
<1>2. QED
  BY <1>1, Arriving, PTL DEF Spec, SnapshotsGrow


-----------------------------------------------------------------------------
(* What close waits for *)

(* Place i of the queue is behind every item that is owed.                 *)
BehindOwed(i) ==
  \A r \in Run : \A n \in 1 .. Stored(r) :
    n <= owed[r] => \A j \in 1 .. Len(queue) : queue[j] = Item(r, eventsByRun[r], n) => j < i

StopInv ==
  /\ consumer \in {"running", "stopped"} /\ closing \in {"open", "joining", "closed"}
  /\ owed \in [Run -> Nat] /\ \A r \in Run : owed[r] <= Stored(r)
  /\ closing = "open" =>
       consumer = "running" /\ \A i \in 1 .. Len(queue) : queue[i] # Sentinel
  /\ closing # "open" /\ consumer = "running" =>
       \E i \in 1 .. Len(queue) :
         /\ \A j \in 1 .. Len(queue) : queue[j] = Sentinel <=> j = i
         /\ BehindOwed(i)
  /\ consumer = "stopped" => \A r \in Run : owed[r] <= Seen(r)
  /\ closing = "closed" => consumer = "stopped"

LEMMA InitStop == Init => StopInv
<1> SUFFICES ASSUME Init PROVE StopInv
  OBVIOUS
<1>1. /\ queue = <<>> /\ consumer = "running" /\ closing = "open"
      /\ owed = [r \in Run |-> 0] /\ eventsByRun = [r \in Run |-> <<>>]
  BY DEF Init, NoRuns
<1>2. \A r \in Run : Stored(r) = 0
  BY <1>1 DEF Stored
<1>3. QED
  BY <1>1, <1>2, EmptySeq DEF StopInv

LEMMA RecordStop ==
  ASSUME ArriveInv, StopInv, NEW r \in Run, NEW seq \in Number, NEW t \in Type,
         NEW g \in Engine, Record(r, seq, t, g)
  PROVE  StopInv'
<1>i. EventsInv /\ QueueInv /\ SeenInv
  BY DEF ArriveInv
<1>n. \A q \in Run : Stored(q) \in Nat /\ Seen(q) \in Nat /\ owed[q] \in Nat /\ owed[q] <= Stored(q)
  BY <1>i, LenProperties DEF EventsInv, Stored, SeenInv, StopInv
<1>1. /\ EventsInv' /\ Stored(r)' = Stored(r) + 1
      /\ \A q \in Run : q # r => eventsByRun'[q] = eventsByRun[q]
  BY <1>i, RecordFacts
<1>2. \A q \in Run : \A n \in 1 .. Stored(q) :
        Item(q, eventsByRun'[q], n) = Item(q, eventsByRun[q], n)
  BY <1>i, RecordFacts
<1>3. PICK new : new = Stored(r) + 1
  OBVIOUS
<1> DEFINE arriving == Item(r, eventsByRun'[r], new)
           N == Len(queue)
<1>4. /\ queue' = Append(queue, arriving)
      /\ new \in 1 .. Len(eventsByRun'[r]) /\ new \in 1 .. Stored(r)'
      /\ eventsByRun'[r] \in Seq(EventOf(r))
  <2>1. queue' = Append(queue, Item(r, eventsByRun'[r], Len(eventsByRun'[r])))
    BY <1>i, RecordFacts
  <2>2. new = Len(eventsByRun'[r])
    BY <1>1, <1>3 DEF Stored
  <2>3. new \in Nat /\ 1 <= new
    BY <1>n, <1>3
  <2>4. new \in 1 .. Stored(r)'
    BY <1>n, <1>1, <1>3
  <2>5. QED
    BY <1>1, <2>1, <2>2, <2>3, <2>4 DEF EventsInv
<1>5. arriving \in Arrival /\ arriving # Sentinel
  BY <1>4, ItemFacts
<1>6. /\ Len(queue') = N + 1 /\ N \in Nat
      /\ \A i \in 1 .. N : queue'[i] = queue[i] /\ i \in 1 .. Len(queue')
      /\ queue'[N + 1] = arriving
  <2> HIDE DEF arriving
  <2>1. QED
    BY <1>i, <1>4, <1>5, AppendProperties, LenProperties DEF QueueInv
<1>7. /\ owed' = owed /\ consumer' = consumer /\ closing' = closing
      /\ \A q \in Run : Seen(q)' = Seen(q)
  BY DEF Record, seenVars, Seen
<1>8. \A q \in Run : /\ owed[q] <= Stored(q)'
                     /\ \A n \in 1 .. Stored(q)' : n <= owed[q] => n \in 1 .. Stored(q)
  <2>1. \A q \in Run : Stored(q)' = Stored(q) \/ Stored(q)' = Stored(q) + 1
    BY <1>1 DEF Stored
  <2>2. QED
    BY <1>n, <2>1
<1>9. ASSUME NEW q \in Run, NEW n \in 1 .. Stored(q), n <= owed[q]
      PROVE  Item(q, eventsByRun'[q], n) # arriving
  <2>1. CASE q # r
    <3>1. n \in 1 .. Len(eventsByRun'[q]) /\ eventsByRun'[q] \in Seq(EventOf(q))
      BY <1>1, <2>1 DEF EventsInv, Stored
    <3>2. QED
      BY <1>4, <2>1, <3>1, ItemsDiffer
  <2>2. CASE q = r
    <3>1. n \in 1 .. Len(eventsByRun'[q]) /\ n # new
      <4>1. n # new
        BY <1>n, <1>3, <2>2
      <4>2. n \in 1 .. Stored(q)'
        BY <1>n, <1>1, <2>2
      <4>3. QED
        BY <4>1, <4>2 DEF Stored
    <3>2. QED
      BY <1>4, <2>2, <3>1, ItemsDiffer
  <2>3. QED
    BY <2>1, <2>2
<1> HIDE DEF N, arriving
<1>10. \A i \in 1 .. Len(queue') : (i \in 1 .. N /\ queue'[i] = queue[i]) \/ (i = N + 1 /\ queue'[i] = arriving)
  BY <1>6
<1>11. closing = "open" => \A i \in 1 .. Len(queue') : queue'[i] # Sentinel
  BY <1>5, <1>10 DEF StopInv, N
<1>12. ASSUME closing # "open", consumer = "running"
       PROVE  \E i \in 1 .. Len(queue') :
                /\ \A j \in 1 .. Len(queue') : queue'[j] = Sentinel <=> j = i
                /\ BehindOwed(i)'
  <2>1. PICK i \in 1 .. N :
          /\ \A j \in 1 .. N : queue[j] = Sentinel <=> j = i
          /\ BehindOwed(i)
    BY <1>12 DEF StopInv, N
  <2>2. i \in 1 .. Len(queue') /\ i # N + 1
    BY <1>6
  <2>3. \A j \in 1 .. Len(queue') : queue'[j] = Sentinel <=> j = i
    BY <1>5, <1>10, <2>1, <2>2
  <2>4. ASSUME NEW q \in Run, NEW n \in 1 .. Stored(q)', n <= owed[q],
               NEW j \in 1 .. Len(queue'), queue'[j] = Item(q, eventsByRun'[q], n)
        PROVE  j < i
    <3>1. n \in 1 .. Stored(q)
      BY <1>8, <2>4
    <3>2. j \in 1 .. N /\ queue[j] = Item(q, eventsByRun[q], n)
      BY <1>2, <1>9, <1>10, <2>4, <3>1
    <3>3. QED
      BY <2>1, <2>4, <3>1, <3>2 DEF BehindOwed, N
  <2>5. BehindOwed(i)'
    BY <1>7, <2>4 DEF BehindOwed
  <2>6. QED
    BY <2>2, <2>3, <2>5
<1>13. QED
  BY <1>7, <1>8, <1>11, <1>12 DEF StopInv

(* The consumer takes the head of the queue.                               *)
LEMMA PopStop ==
  ASSUME ArriveInv, ArriveInv', StopInv, consumer = "running",
         queue # <<>>, queue' = Tail(queue), UNCHANGED <<eventsByRun, owed, closing>>,
         Head(queue) = Sentinel => consumer' = "stopped" /\ last' = last,
         Head(queue) # Sentinel => consumer' = "running"
  PROVE  StopInv'
<1>i. EventsInv /\ QueueInv /\ SeenInv
  BY DEF ArriveInv
<1>n. \A q \in Run : /\ eventsByRun[q] \in Seq(EventOf(q)) /\ Stored(q) \in Nat
                     /\ Seen(q) \in Nat /\ owed[q] \in Nat /\ owed[q] <= Stored(q)
                     /\ Stored(q)' = Stored(q)
  BY <1>i, LenProperties DEF EventsInv, Stored, SeenInv, StopInv
<1> DEFINE N == Len(queue)
<1>1. /\ N \in Nat /\ 1 \in 1 .. N /\ Head(queue) = queue[1]
      /\ Len(queue') = N - 1 /\ Len(queue') \in Nat
      /\ \A i \in 1 .. Len(queue') : i + 1 \in 1 .. N /\ queue'[i] = queue[i + 1]
  <2>1. queue \in Seq(Arrival) /\ N \in Nat
    BY <1>i, LenProperties DEF QueueInv
  <2>2. /\ Head(queue) = queue[1] /\ Tail(queue) \in Seq(Arrival)
        /\ Len(Tail(queue)) = N - 1
        /\ \A i \in 1 .. Len(Tail(queue)) : Tail(queue)[i] = queue[i + 1]
    BY <2>1, HeadTailProperties
  <2>3. Len(Tail(queue)) \in Nat
    BY <2>2, LenProperties
  <2> HIDE DEF N
  <2>4. QED
    BY <2>1, <2>2, <2>3
<1> HIDE DEF N
<1>2. CASE closing = "open"
  <2>1. \A i \in 1 .. N : queue[i] # Sentinel
    BY <1>2 DEF StopInv, N
  <2>2. consumer' = "running"
    BY <1>1, <2>1
  <2>3. \A i \in 1 .. Len(queue') : queue'[i] # Sentinel
    BY <1>1, <2>1
  <2>4. QED
    BY <1>2, <1>n, <2>2, <2>3 DEF StopInv
<1>3. CASE closing # "open"
  <2>1. PICK k \in 1 .. N :
          /\ \A j \in 1 .. N : queue[j] = Sentinel <=> j = k
          /\ BehindOwed(k)
    BY <1>3 DEF StopInv, N
  <2>2. CASE Head(queue) = Sentinel
    <3>1. k = 1 /\ consumer' = "stopped"
      BY <1>1, <2>1, <2>2
    <3>2. ASSUME NEW r \in Run PROVE owed[r] <= Seen(r)
      <4> SUFFICES ASSUME owed[r] > Seen(r) PROVE FALSE
        BY <1>n
      <4>1. PICK n \in 1 .. Stored(r) : n = owed[r]
        BY <1>n
      <4>2. PICK i \in 1 .. N : queue[i] = Item(r, eventsByRun[r], n)
        BY <1>i, <4>1 DEF QueueInv, N
      <4>3. n <= owed[r]
        BY <1>n, <4>1
      <4>4. i < 1
        BY <2>1, <3>1, <4>2, <4>3 DEF BehindOwed, N
      <4>5. QED
        BY <1>1, <4>4
    <3>3. \A r \in Run : Seen(r)' = Seen(r)
      BY <2>2 DEF Seen
    <3>4. QED
      BY <1>3, <1>n, <3>1, <3>2, <3>3 DEF StopInv
  <2>3. CASE Head(queue) # Sentinel
    <3>1. k # 1
      BY <1>1, <2>1, <2>3
    <3>2. PICK i \in 1 .. Len(queue') : k = i + 1
      BY <1>1, <3>1
    <3>3. \A j \in 1 .. Len(queue') : queue'[j] = Sentinel <=> j = i
      BY <1>1, <2>1, <3>2
    <3>4. ASSUME NEW q \in Run, NEW n \in 1 .. Stored(q), n <= owed[q],
                 NEW j \in 1 .. Len(queue'), queue'[j] = Item(q, eventsByRun[q], n)
          PROVE  j < i
      <4>1. j + 1 \in 1 .. N /\ queue[j + 1] = Item(q, eventsByRun[q], n)
        BY <1>1, <3>4
      <4>2. j + 1 < k
        BY <2>1, <3>4, <4>1 DEF BehindOwed, N
      <4>3. QED
        BY <1>1, <3>2, <4>2
    <3>5. BehindOwed(i)'
      BY <1>n, <3>4 DEF BehindOwed
    <3>6. QED
      BY <1>3, <1>n, <2>3, <3>3, <3>5 DEF StopInv
  <2>4. QED
    BY <2>2, <2>3
<1>4. QED
  BY <1>2, <1>3


LEMMA CloseStop == ArriveInv /\ StopInv /\ Close => StopInv'
<1> SUFFICES ASSUME ArriveInv, StopInv, Close PROVE StopInv'
  OBVIOUS
<1>i. EventsInv /\ QueueInv /\ SeenInv
  BY DEF ArriveInv
<1> DEFINE N == Len(queue)
<1>1. /\ queue' = Append(queue, Sentinel) /\ eventsByRun' = eventsByRun
      /\ consumer' = consumer /\ closing = "open" /\ closing' = "joining"
      /\ owed' = [r \in Run |-> Stored(r)]
  BY DEF Close, storeVars, seenVars, Stored
<1>2. /\ Len(queue') = N + 1 /\ N \in Nat /\ N + 1 \in 1 .. Len(queue')
      /\ \A i \in 1 .. N : queue'[i] = queue[i]
      /\ queue'[N + 1] = Sentinel
  <2>1. Sentinel \in Arrival /\ queue \in Seq(Arrival)
    BY <1>i DEF Arrival, QueueInv
  <2>2. QED
    BY <1>1, <2>1, AppendProperties, LenProperties
<1>3. \A q \in Run : /\ eventsByRun[q] \in Seq(EventOf(q)) /\ Stored(q) = Len(eventsByRun[q])
                     /\ Stored(q) \in Nat /\ Stored(q)' = Stored(q) /\ owed'[q] = Stored(q)
  BY <1>i, <1>1, LenProperties DEF EventsInv, Stored
<1>4. \A i \in 1 .. N : queue[i] # Sentinel
  BY <1>1 DEF StopInv
<1> HIDE DEF N
<1>5. \A i \in 1 .. Len(queue') : (i \in 1 .. N /\ queue'[i] = queue[i]) \/ (i = N + 1 /\ queue'[i] = Sentinel)
  BY <1>2
<1>6. \A j \in 1 .. Len(queue') : queue'[j] = Sentinel <=> j = N + 1
  BY <1>2, <1>4, <1>5
<1>7. ASSUME NEW q \in Run, NEW n \in 1 .. Stored(q),
             NEW j \in 1 .. Len(queue'), queue'[j] = Item(q, eventsByRun[q], n)
      PROVE  j < N + 1
  <2>1. Item(q, eventsByRun[q], n) # Sentinel
    BY <1>3, ItemFacts
  <2>2. j \in 1 .. N
    BY <1>5, <1>7, <2>1
  <2>3. QED
    BY <1>2, <2>2
<1>8. PICK k : k = N + 1
  OBVIOUS
<1>9. BehindOwed(k)'
  BY <1>1, <1>3, <1>7, <1>8 DEF BehindOwed
<1>10. QED
  BY <1>1, <1>2, <1>3, <1>6, <1>8, <1>9 DEF StopInv

LEMMA StopStep == ArriveInv /\ StopInv /\ [Next]_vars => StopInv'
<1> SUFFICES ASSUME ArriveInv, StopInv, [Next]_vars PROVE StopInv'
  OBVIOUS
<1>1. ArriveInv'
  BY ArriveStep
<1>2. CASE \E r \in Run, seq \in Number, t \in Type, g \in Engine : Record(r, seq, t, g)
  BY <1>2, RecordStop
<1>3. CASE \E done \in SUBSET Sub, raised \in BOOLEAN : Process(done, raised)
  <2>1. /\ queue # <<>> /\ Head(queue) # Sentinel /\ queue' = Tail(queue)
        /\ consumer = "running" /\ consumer' = "running"
        /\ UNCHANGED <<eventsByRun, owed, closing>>
    BY <1>3, ProcessShows
  <2>2. QED
    BY <1>1, <2>1, PopStop
<1>4. CASE TakeSentinel
  <2>1. /\ queue # <<>> /\ Head(queue) = Sentinel /\ queue' = Tail(queue)
        /\ consumer = "running" /\ consumer' = "stopped" /\ last' = last
        /\ UNCHANGED <<eventsByRun, owed, closing>>
    BY <1>4 DEF TakeSentinel, storeVars, seenVars
  <2>2. QED
    BY <1>1, <2>1, PopStop
<1>5. CASE Close
  BY <1>5, CloseStop
<1>6. CASE Quiet /\ (closing' = closing \/ CloseReturns)
  <2>1. /\ eventsByRun' = eventsByRun /\ queue' = queue /\ last' = last
        /\ consumer' = consumer /\ owed' = owed
    BY <1>6 DEF Quiet
  <2>2. /\ \A r \in Run : Stored(r)' = Stored(r) /\ Seen(r)' = Seen(r)
        /\ \A i \in Nat : BehindOwed(i)' <=> BehindOwed(i)
    BY <2>1 DEF Stored, Seen, BehindOwed
  <2>3. CASE closing' = closing
    BY <2>1, <2>2, <2>3 DEF StopInv, BehindOwed
  <2>4. CASE CloseReturns
    <3>1. closing' = "closed" /\ consumer = "stopped" /\ closing = "joining"
      BY <2>4 DEF CloseReturns
    <3>2. QED
      BY <2>1, <2>2, <3>1 DEF StopInv
  <2>5. QED
    BY <1>6, <2>3, <2>4
<1>7. QED
  BY <1>2, <1>3, <1>4, <1>5, <1>6, StepKinds

(* close returns only when every event whose record had returned before    *)
(* close was called has been evaluated, whatever callbacks raised meanwhile *)
(* and whatever was recorded behind the sentinel (CloseDrains).            *)
THEOREM NothingLeftBehind == Spec => []CloseDrains
<1>1. ArriveInv /\ StopInv => CloseDrains
  <2> SUFFICES ASSUME ArriveInv, StopInv, closing = "closed", NEW r \in Run, owed[r] > 0
               PROVE  last[r] # None /\ Len(last[r].events) >= owed[r]
    BY DEF CloseDrains
  <2>1. owed[r] \in Nat /\ owed[r] <= Seen(r) /\ Seen(r) \in 0 .. Stored(r)
    BY DEF ArriveInv, SeenInv, StopInv
  <2>2. Stored(r) \in Nat
    BY LenProperties DEF ArriveInv, EventsInv, Stored
  <2>3. Seen(r) # 0
    BY <2>1, <2>2
  <2>4. QED
    BY <2>1, <2>2, <2>3 DEF Seen
<1>2. QED
  BY <1>1, InitArrive, InitStop, ArriveStep, StopStep, PTL DEF Spec


-----------------------------------------------------------------------------
(* Subscriptions *)

(* register keeps every subscription where _affected looks for it.         *)
RegisteredInv ==
  /\ subscribed \subseteq Sub
  /\ globals = Global(subscribed) /\ impacted = Impact(subscribed)

(* A subscription remembers only runs that the consumer was shown.         *)
MemoryInv ==
  /\ matching \in [Sub -> SUBSET Run] /\ fresh \subseteq subscribed \X Run
  /\ reported \in [Sub -> [Run -> Nat]]
  /\ \A s \in Sub : \A r \in matching[s] : last[r] # None
  /\ \A s \in subscribed, r \in Run : <<s, r>> \in fresh => last[r] # None

EngineInv == RegisteredInv /\ MemoryInv

LEMMA Impacts ==
  ASSUME NEW S, NEW s \in S, NEW t \in Type
  PROVE  t \in Mentions(SubQuery[s]) => <<t, s>> \in Impact(S)
<1>1. <<t, s>> \in Type \X S /\ <<t, s>>[1] = t /\ <<t, s>>[2] = s
  OBVIOUS
<1>2. QED
  BY <1>1 DEF Impact

LEMMA RegisteredGrows ==
  ASSUME NEW S, NEW T
  PROVE  Impact(S \cup T) = Impact(S) \cup Impact(T) /\ Global(S \cup T) = Global(S) \cup Global(T)
BY DEF Impact, Global

(* Whom an event does not concern, it does not mention.                    *)
LEMMA AffectedFacts ==
  ASSUME RegisteredInv, NEW t \in Type
  PROVE  /\ Affected(t) \subseteq subscribed
         /\ \A s \in subscribed \ Affected(t) :
              Mentions(SubQuery[s]) # {} /\ t \notin Mentions(SubQuery[s])
<1> DEFINE chosen == {s \in Sub : <<t, s>> \in impacted} \cup globals
<1>1. chosen \subseteq subscribed
  BY DEF RegisteredInv, Impact, Global
<1>2. \A s \in subscribed \ chosen :
        Mentions(SubQuery[s]) # {} /\ t \notin Mentions(SubQuery[s])
  BY Impacts DEF RegisteredInv, Global
<1>3. Affected(t) = IF chosen = {} THEN subscribed ELSE chosen
  BY DEF Affected
<1> HIDE DEF chosen
<1>4. QED
  BY <1>1, <1>2, <1>3

(* What one evaluation of the event next of run r changes.                 *)
Shown(r, next, snapshot, done) ==
  /\ next \in 1 .. Stored(r) /\ Seen(r) \in Nat /\ next = Seen(r) + 1
  /\ snapshot = Upto(r, eventsByRun[r], next) /\ snapshot # None
  /\ last'[r] = snapshot /\ \A q \in Run : q # r => last'[q] = last[q]
  /\ done \subseteq Affected(eventsByRun[r][next].type)
  /\ matching' = [s \in Sub |->
       IF s \in done THEN IF Evaluates(SubQuery[s], snapshot) THEN matching[s] \cup {r}
                                                              ELSE matching[s] \ {r}
                     ELSE matching[s]]
  /\ reported' = [s \in Sub |->
       IF s \in done /\ Evaluates(SubQuery[s], snapshot) /\ r \notin matching[s]
                     /\ Confirms(s, snapshot)
       THEN [reported[s] EXCEPT ![r] = @ + 1] ELSE reported[s]]
  /\ fresh' = (fresh \cup (done \X {r}))
                \ ((Affected(eventsByRun[r][next].type) \ done) \X {r})

LEMMA ProcessShown ==
  ASSUME ArriveInv, NEW done \in SUBSET Sub, NEW raised \in BOOLEAN, Process(done, raised)
  PROVE  \E r \in Run, next \in Nat, snapshot \in Snapshot : Shown(r, next, snapshot, done)
<1>i. EventsInv /\ QueueInv /\ SeenInv
  BY DEF ArriveInv
<1>1. /\ queue # <<>> /\ Head(queue) # Sentinel
      /\ last' = [last EXCEPT ![Head(queue).run.run] = Head(queue).run]
  BY ProcessShows
<1>2. PICK r \in Run : /\ Seen(r) \in Nat /\ Seen(r) + 1 \in 1 .. Stored(r)
                       /\ Head(queue) = Item(r, eventsByRun[r], Seen(r) + 1)
  BY <1>1, HeadIsNext
<1>3. PICK next \in 1 .. Stored(r) : next = Seen(r) + 1
  BY <1>2
<1>4. eventsByRun[r] \in Seq(EventOf(r)) /\ Stored(r) = Len(eventsByRun[r])
  BY <1>i DEF EventsInv, Stored
<1>5. PICK snapshot \in Snapshot : snapshot = Upto(r, eventsByRun[r], next)
  BY <1>3, <1>4, ItemFacts
<1>6. /\ Head(queue).run = snapshot /\ snapshot.run = r /\ snapshot # None
      /\ Head(queue).type = eventsByRun[r][next].type
  BY <1>2, <1>3, <1>4, <1>5, ItemFacts
<1>7. last' = [last EXCEPT ![r] = snapshot]
  BY <1>1, <1>6
<1>8. last'[r] = snapshot /\ \A q \in Run : q # r => last'[q] = last[q]
  BY <1>i, <1>7 DEF SeenInv
<1>9. /\ done \subseteq Affected(eventsByRun[r][next].type)
      /\ fresh' = (fresh \cup (done \X {r}))
                    \ ((Affected(eventsByRun[r][next].type) \ done) \X {r})
  BY <1>6 DEF Process
<1>10. matching' = [s \in Sub |->
         IF s \in done THEN IF Evaluates(SubQuery[s], snapshot) THEN matching[s] \cup {r}
                                                                ELSE matching[s] \ {r}
                       ELSE matching[s]]
  BY <1>6 DEF Process, MatchingAfter
<1>11. reported' = [s \in Sub |->
         IF s \in done /\ Evaluates(SubQuery[s], snapshot) /\ r \notin matching[s]
                       /\ Confirms(s, snapshot)
         THEN [reported[s] EXCEPT ![r] = @ + 1] ELSE reported[s]]
  BY <1>6 DEF Process, Reports
<1>12. next \in Nat
  BY <1>2, <1>3
<1>13. Shown(r, next, snapshot, done)
  BY <1>2, <1>3, <1>5, <1>6, <1>8, <1>9, <1>10, <1>11 DEF Shown
<1>14. QED
  BY <1>12, <1>13

LEMMA InitEngine == Init => EngineInv
BY DEF Init, NoRuns, EngineInv, RegisteredInv, MemoryInv

LEMMA RegisterEngine ==
  ASSUME EngineInv, NEW s \in Late, Register(s)
  PROVE  EngineInv'
<1>i. RegisteredInv /\ MemoryInv /\ s \in Sub
  BY LiveAssumption DEF EngineInv
<1>1. /\ subscribed' = subscribed \cup {s} /\ matching' = [matching EXCEPT ![s] = {}]
      /\ impacted' = impacted \cup Impact({s}) /\ globals' = globals \cup Global({s})
      /\ fresh' = {p \in fresh : p[1] # s} /\ reported' = [reported EXCEPT ![s] = NoRuns]
      /\ last' = last
  BY DEF Register
<1>2. RegisteredInv'
  <2>1. /\ Impact(subscribed') = Impact(subscribed) \cup Impact({s})
        /\ Global(subscribed') = Global(subscribed) \cup Global({s})
    BY <1>1, RegisteredGrows
  <2>2. QED
    BY <1>i, <1>1, <2>1 DEF RegisteredInv, Impact, Global
<1>3. NoRuns \in [Run -> Nat]
  BY DEF NoRuns
<1>4. MemoryInv'
  <2>1. matching' \in [Sub -> SUBSET Run] /\ reported' \in [Sub -> [Run -> Nat]]
    BY <1>i, <1>1, <1>3 DEF MemoryInv
  <2>2. fresh' \subseteq subscribed' \X Run
    BY <1>i, <1>1 DEF MemoryInv
  <2>3. \A q \in Sub : matching'[q] \subseteq matching[q]
    BY <1>i, <1>1 DEF MemoryInv
  <2>4. \A q \in Sub : \A r \in matching'[q] : last'[r] # None
    BY <1>i, <1>1, <2>3 DEF MemoryInv
  <2>5. \A q \in subscribed', r \in Run : <<q, r>> \in fresh' => last'[r] # None
    <3>1. fresh' \subseteq fresh
      BY <1>1
    <3>2. QED
      BY <1>i, <1>1, <3>1 DEF MemoryInv
  <2>6. QED
    BY <2>1, <2>2, <2>4, <2>5 DEF MemoryInv
<1>5. QED
  BY <1>2, <1>4 DEF EngineInv

LEMMA EventTypes ==
  ASSUME EventsInv, NEW r \in Run, NEW n \in 1 .. Stored(r)
  PROVE  /\ eventsByRun[r] \in Seq(EventOf(r)) /\ n \in 1 .. Len(eventsByRun[r])
         /\ eventsByRun[r][n] \in EventOf(r) /\ eventsByRun[r][n].type \in Type
BY ElementOfSeq, EventFacts DEF EventsInv, Stored

LEMMA ProcessEngine ==
  ASSUME ArriveInv, EngineInv, NEW done \in SUBSET Sub, NEW raised \in BOOLEAN,
         Process(done, raised)
  PROVE  EngineInv'
<1>i. RegisteredInv /\ MemoryInv /\ EventsInv
  BY DEF ArriveInv, EngineInv
<1>0. PICK r \in Run, next \in Nat, snapshot \in Snapshot : Shown(r, next, snapshot, done)
  BY ProcessShown
<1>1. /\ next \in 1 .. Stored(r) /\ snapshot # None
      /\ last'[r] = snapshot /\ \A q \in Run : q # r => last'[q] = last[q]
  BY <1>0 DEF Shown
<1>2. done \subseteq subscribed
  <2>1. eventsByRun[r][next].type \in Type
    BY <1>i, <1>1, EventTypes
  <2>2. QED
    BY <1>i, <1>0, <2>1, AffectedFacts DEF Shown
<1>3. UNCHANGED <<subscribed, impacted, globals>>
  BY ProcessShows
<1>4. \A q \in Run : last[q] # None => last'[q] # None
  BY <1>1
<1>5. MemoryInv'
  <2>1. matching' \in [Sub -> SUBSET Run]
    BY <1>i, <1>0 DEF Shown, MemoryInv
  <2>2. \A s \in Sub : matching'[s] \subseteq matching[s] \cup {r}
    BY <1>0 DEF Shown
  <2>3. fresh' \subseteq fresh \cup (done \X {r})
    BY <1>0 DEF Shown
  <2>4. reported' \in [Sub -> [Run -> Nat]]
    <3>1. \A s \in Sub : /\ [reported[s] EXCEPT ![r] = @ + 1] \in [Run -> Nat]
                         /\ reported[s] \in [Run -> Nat]
      BY <1>i DEF MemoryInv
    <3>2. QED
      BY <1>0, <3>1 DEF Shown
  <2>5. \A s \in Sub : \A q \in matching'[s] : last'[q] # None
    BY <1>i, <1>1, <1>4, <2>1, <2>2 DEF MemoryInv
  <2>6. fresh' \subseteq subscribed \X Run
    BY <1>i, <1>2, <2>3 DEF MemoryInv
  <2>7. \A s \in subscribed, q \in Run : <<s, q>> \in fresh' => last'[q] # None
    BY <1>i, <1>1, <1>4, <2>3 DEF MemoryInv
  <2>8. QED
    BY <1>3, <2>1, <2>4, <2>5, <2>6, <2>7 DEF MemoryInv
<1>6. QED
  BY <1>i, <1>3, <1>5 DEF RegisteredInv, EngineInv, Impact, Global

Still == UNCHANGED <<engineVars, last, fresh, reported>>

(* What the engine does in a step: it evaluates, registers, or rests.      *)
LEMMA EngineSteps ==
  ASSUME [Next]_vars
  PROVE  \/ \E done \in SUBSET Sub, raised \in BOOLEAN : Process(done, raised)
         \/ \E s \in Late : Register(s)
         \/ Still
<1>1. CASE vars' = vars
  BY <1>1 DEF vars, engineVars, seenVars, Still
<1>2. ASSUME NEW r \in Run, NEW seq \in 0 .. MaxRecords + MaxSkew, NEW k \in Kind,
             Record(r, seq, k[1], k[2])
      PROVE  Still
  BY <1>2 DEF Record, engineVars, seenVars, Still
<1>3. ASSUME NEW source \in Node, NEW target \in Node, Link(source, target, "INFORMED")
      PROVE  Still
  BY <1>3 DEF Link, engineVars, seenVars, Still
<1>4. CASE TakeSentinel \/ Close \/ CloseReturns
  BY <1>4 DEF TakeSentinel, Close, CloseReturns, engineVars, seenVars, Still
<1>5. QED
  BY <1>1, <1>2, <1>3, <1>4 DEF Next, Consume

LEMMA EngineStep == ArriveInv /\ EngineInv /\ [Next]_vars => EngineInv'
<1> SUFFICES ASSUME ArriveInv, EngineInv, [Next]_vars PROVE EngineInv'
  OBVIOUS
<1>1. CASE Still
  BY <1>1 DEF Still, engineVars, EngineInv, RegisteredInv, MemoryInv, Impact, Global
<1>2. QED
  BY <1>1, ProcessEngine, RegisterEngine, EngineSteps


-----------------------------------------------------------------------------
(* The indices *)

(* The index holds the entries of the events of every run.                 *)
IndexInv ==
  index = UNION {UNION {Entries(r, e) : e \in ToSet(eventsByRun[r])} : r \in Run}

LEMMA IndexStep == ArriveInv /\ IndexInv /\ [Next]_vars => IndexInv'
<1> SUFFICES ASSUME ArriveInv, IndexInv, [Next]_vars PROVE IndexInv'
  OBVIOUS
<1>i. EventsInv
  BY DEF ArriveInv
<1>1. ASSUME NEW r \in Run, NEW seq \in Number, NEW t \in Type, NEW g \in Engine,
             Record(r, seq, t, g)
      PROVE  IndexInv'
  <2> DEFINE e == [run |-> r, seq |-> seq, type |-> t, engine |-> g]
             Of(q, S) == UNION {Entries(q, d) : d \in S}
  <2>1. eventsByRun'[r] = Append(eventsByRun[r], e) /\ index' = index \cup Entries(r, e)
    BY <1>i, <1>1, RecordFacts DEF Record
  <2>2. \A q \in Run : q # r => eventsByRun'[q] = eventsByRun[q]
    BY <1>i, <1>1, RecordFacts
  <2> HIDE DEF e
  <2>3. ToSet(eventsByRun'[r]) = ToSet(eventsByRun[r]) \cup {e}
    BY <1>i, <2>1, RangeAppend DEF EventsInv, ToSet, Range
  <2>4. Of(r, ToSet(eventsByRun'[r])) = Of(r, ToSet(eventsByRun[r])) \cup Entries(r, e)
    BY <2>3
  <2>5. \A q \in Run : q # r => Of(q, ToSet(eventsByRun'[q])) = Of(q, ToSet(eventsByRun[q]))
    BY <2>2
  <2>6. index = UNION {Of(q, ToSet(eventsByRun[q])) : q \in Run}
    BY DEF IndexInv
  <2> HIDE DEF Of
  <2>7. index' = UNION {Of(q, ToSet(eventsByRun'[q])) : q \in Run}
    BY <2>1, <2>4, <2>5, <2>6
  <2>8. QED
    BY <2>7 DEF IndexInv, Of
<1>2. CASE eventsByRun' = eventsByRun /\ index' = index
  BY <1>2 DEF IndexInv
<1>3. \/ \E r \in Run, seq \in Number, t \in Type, g \in Engine : Record(r, seq, t, g)
      \/ eventsByRun' = eventsByRun /\ index' = index
  <2>1. CASE vars' = vars
    BY <2>1 DEF vars, storeVars
  <2>2. CASE \E r \in Run, seq \in 0 .. MaxRecords + MaxSkew, k \in Kind : Record(r, seq, k[1], k[2])
    BY <2>2, LiveAssumption DEF Number
  <2>3. ASSUME NEW source \in Node, NEW target \in Node, Link(source, target, "INFORMED")
        PROVE  eventsByRun' = eventsByRun /\ index' = index
    BY <2>3 DEF Link
  <2>4. ASSUME NEW s \in Late, Register(s) PROVE eventsByRun' = eventsByRun /\ index' = index
    BY <2>4 DEF Register, storeVars
  <2>5. ASSUME NEW done \in SUBSET Sub, NEW raised \in BOOLEAN, Process(done, raised)
        PROVE  eventsByRun' = eventsByRun /\ index' = index
    BY <2>5, ProcessShows
  <2>6. CASE TakeSentinel \/ Close \/ CloseReturns
    BY <2>6 DEF TakeSentinel, Close, CloseReturns, storeVars
  <2>7. QED
    BY <2>1, <2>2, <2>3, <2>4, <2>5, <2>6 DEF Next, Consume
<1>4. QED
  BY <1>1, <1>2, <1>3

LEMMA InitIndex == Init => IndexInv
<1> SUFFICES ASSUME Init PROVE IndexInv
  OBVIOUS
<1>1. index = {} /\ \A r \in Run : eventsByRun[r] = <<>>
  BY DEF Init
<1>2. \A r \in Run : ToSet(eventsByRun[r]) = {}
  BY <1>1 DEF ToSet
<1>3. QED
  BY <1>1, <1>2 DEF IndexInv

(* Every variable stays in its type, and the indices of the in-memory      *)
(* store hold the engines and the types of each run's events: no more, no  *)
(* less (TypeOK).                                                          *)
THEOREM TypeCorrect == Spec => []TypeOK
<1> DEFINE Inv == ArriveInv /\ StopInv /\ EngineInv /\ IndexInv
<1>1. Inv => TypeOK
  <2> SUFFICES ASSUME Inv PROVE TypeOK
    OBVIOUS
  <2>i. /\ EventsInv /\ SeenInv /\ StopInv /\ RegisteredInv /\ MemoryInv /\ IndexInv
    BY DEF ArriveInv, EngineInv
  <2>1. ASSUME NEW r \in Run, NEW i \in DOMAIN eventsByRun[r]
        PROVE  eventsByRun[r][i] \in
                 [run : {r}, seq : 0 .. MaxRecords + MaxSkew, type : Type, engine : Engine]
    <3>1. i \in 1 .. Stored(r)
      BY <2>i, LenProperties DEF EventsInv, Stored
    <3>2. QED
      BY <2>i, <3>1, EventTypes DEF EventOf, Number
  <2>2. ASSUME NEW r \in Run
        PROVE  LET Indexed(kind) == {n.value : n \in {m \in index : m.run = r /\ m.kind = kind}}
               IN  /\ Indexed("engineName") = {e.engine : e \in ToSet(eventsByRun[r])}
                   /\ Indexed("decisionType") = {e.type : e \in ToSet(eventsByRun[r])}
    <3> DEFINE Indexed(kind) == {n.value : n \in {m \in index : m.run = r /\ m.kind = kind}}
               E == ToSet(eventsByRun[r])
    <3>1. \A e \in E : /\ [kind |-> "engineName", value |-> e.engine, run |-> r] \in index
                       /\ [kind |-> "decisionType", value |-> e.type, run |-> r] \in index
      BY <2>i DEF IndexInv, Entries
    <3>2. \A m \in index : m.run = r =>
            \E e \in E : m \in Entries(r, e)
      BY <2>i DEF IndexInv, Entries
    <3> HIDE DEF E
    <3>3. Indexed("engineName") \subseteq {e.engine : e \in E}
      BY <3>2 DEF Entries
    <3>4. {e.engine : e \in E} \subseteq Indexed("engineName")
      <4> SUFFICES ASSUME NEW e \in E PROVE e.engine \in Indexed("engineName")
        OBVIOUS
      <4> DEFINE n == [kind |-> "engineName", value |-> e.engine, run |-> r]
      <4>1. n \in index /\ n.kind = "engineName" /\ n.value = e.engine /\ n.run = r
        BY <3>1
      <4>2. QED
        BY <4>1
    <3>5. Indexed("decisionType") \subseteq {e.type : e \in E}
      BY <3>2 DEF Entries
    <3>6. {e.type : e \in E} \subseteq Indexed("decisionType")
      <4> SUFFICES ASSUME NEW e \in E PROVE e.type \in Indexed("decisionType")
        OBVIOUS
      <4> DEFINE n == [kind |-> "decisionType", value |-> e.type, run |-> r]
      <4>1. n \in index /\ n.kind = "decisionType" /\ n.value = e.type /\ n.run = r
        BY <3>1
      <4>2. QED
        BY <4>1
    <3>7. Indexed("engineName") = {e.engine : e \in E}
      BY <3>3, <3>4
    <3>8. Indexed("decisionType") = {e.type : e \in E}
      BY <3>5, <3>6
    <3>9. QED
      BY <3>7, <3>8 DEF E
  <2>3. \A r \in Run : last[r] # None => r \in StoredRuns
    <3> SUFFICES ASSUME NEW r \in Run, last[r] # None PROVE eventsByRun[r] # <<>>
      BY DEF StoredRuns
    <3>1. Seen(r) \in 0 .. Stored(r) /\ Seen(r) # 0
      BY <2>i DEF SeenInv
    <3>2. Stored(r) # 0
      BY <3>1
    <3>3. QED
      BY <3>2, EmptySeq DEF Stored
  <2>4. matching \in [Sub -> SUBSET StoredRuns]
    <3>1. \A s \in Sub : matching[s] \subseteq Run /\ \A r \in matching[s] : last[r] # None
      BY <2>i DEF MemoryInv
    <3>2. \A s \in Sub : matching[s] \in SUBSET StoredRuns
      BY <2>3, <3>1
    <3>3. QED
      BY <2>i, <3>2 DEF MemoryInv
  <2>5. fresh \subseteq Sub \X StoredRuns
    BY <2>i, <2>3 DEF MemoryInv, RegisteredInv
  <2>6. globals \subseteq subscribed /\ impacted \subseteq Type \X subscribed
    BY <2>i DEF RegisteredInv, Global, Impact
  <2>7. QED
    BY <2>i, <2>1, <2>2, <2>4, <2>5, <2>6 DEF TypeOK, StopInv, MemoryInv, RegisteredInv
<1>2. Init => Inv
  BY InitArrive, InitStop, InitEngine, InitIndex
<1>3. Inv /\ [Next]_vars => Inv'
  BY ArriveStep, StopStep, EngineStep, IndexStep
<1>4. QED
  BY <1>1, <1>2, <1>3, PTL DEF Spec


-----------------------------------------------------------------------------
(* What a subscription knows *)

LocalQuery(s) ==
  \A r \in Run : \A events \in Seq(EventOf(r)), e \in EventOf(r) : LocalAt(s, r, events, e)
MonotoneQuery(s) ==
  \A r \in Run : \A events \in Seq(EventOf(r)), e \in EventOf(r) : MonotoneAt(s, r, events, e)

(* The snapshot shown extends the last one by one event.                   *)
LEMMA Extends ==
  ASSUME ArriveInv, NEW r \in Run, NEW next \in Nat, NEW snapshot \in Snapshot,
         NEW done, Shown(r, next, snapshot, done), last[r] # None
  PROVE  \E events \in Seq(EventOf(r)), e \in EventOf(r) :
           /\ events # <<>> /\ last[r] = MakeRun(r, events)
           /\ snapshot = MakeRun(r, Append(events, e))
           /\ e.type = eventsByRun[r][next].type
<1>i. EventsInv /\ SeenInv
  BY DEF ArriveInv
<1>1. /\ next \in 1 .. Stored(r) /\ next = Seen(r) + 1 /\ Seen(r) \in Nat
      /\ snapshot = Upto(r, eventsByRun[r], next)
  BY DEF Shown
<1>2. Seen(r) # 0 /\ last[r] = Upto(r, eventsByRun[r], Seen(r))
  BY <1>i DEF SeenInv
<1> DEFINE s == eventsByRun[r]
<1>3. s \in Seq(EventOf(r)) /\ next \in 1 .. Len(s) /\ s[next] \in EventOf(r)
  BY <1>i, <1>1, EventTypes
<1> HIDE DEF s
<1>4. PICK before \in 1 .. Len(s) : before = Seen(r) /\ before = next - 1
  BY <1>1, <1>2, <1>3
<1>5. /\ Taken(s, next) = Append(Taken(s, next - 1), s[next])
      /\ Taken(s, before) \in Seq(EventOf(r)) /\ Len(Taken(s, before)) = before
  <2>1. Taken(s, next) = Append(Taken(s, next - 1), s[next])
    BY <1>3, TakenFacts, ZenonT(60)
  <2>2. Taken(s, before) \in Seq(EventOf(r)) /\ Len(Taken(s, before)) = before
    BY <1>3, <1>4, TakenFacts
  <2>3. QED
    BY <2>1, <2>2
<1>6. Taken(s, before) # <<>>
  BY <1>4, <1>5, EmptySeq
<1>7. /\ last[r] = MakeRun(r, Taken(s, before))
      /\ snapshot = MakeRun(r, Append(Taken(s, before), s[next]))
  BY <1>1, <1>2, <1>4, <1>5 DEF Upto, s
<1>8. QED
  BY <1>3, <1>5, <1>6, <1>7 DEF s

LEMMA MatchProcess ==
  ASSUME ArriveInv, EngineInv, MatchStateCurrent, \A s \in Sub : LocalQuery(s),
         NEW done \in SUBSET Sub, NEW raised \in BOOLEAN, Process(done, raised)
  PROVE  MatchStateCurrent'
<1>i. RegisteredInv /\ MemoryInv /\ EventsInv
  BY DEF ArriveInv, EngineInv
<1>0. PICK r \in Run, next \in Nat, snapshot \in Snapshot : Shown(r, next, snapshot, done)
  BY ProcessShown
<1> DEFINE type == eventsByRun[r][next].type
           holds(s) == Evaluates(SubQuery[s], snapshot)
<1>1. /\ next \in 1 .. Stored(r)
      /\ last'[r] = snapshot /\ \A q \in Run : q # r => last'[q] = last[q]
      /\ done \subseteq Affected(type)
      /\ \A s \in done : matching'[s] =
           IF holds(s) THEN matching[s] \cup {r} ELSE matching[s] \ {r}
      /\ \A s \in Sub \ done : matching'[s] = matching[s]
      /\ fresh' = (fresh \cup (done \X {r})) \ ((Affected(type) \ done) \X {r})
  BY <1>0 DEF Shown
<1>2. type \in Type
  BY <1>i, <1>1, EventTypes
<1>3. /\ Affected(type) \subseteq subscribed
      /\ \A s \in subscribed \ Affected(type) :
           Mentions(SubQuery[s]) # {} /\ type \notin Mentions(SubQuery[s])
  BY <1>i, <1>2, AffectedFacts
<1>4. subscribed \subseteq Sub
  BY <1>i DEF RegisteredInv
<1> SUFFICES ASSUME NEW p \in fresh'
             PROVE  p[2] \in matching'[p[1]] <=> Evaluates(SubQuery[p[1]], last'[p[2]])
  BY DEF MatchStateCurrent
<1>5. PICK s \in subscribed, q \in Run : p = <<s, q>>
  <2>1. p \in subscribed \X Run
    BY <1>i, <1>1, <1>3 DEF MemoryInv
  <2>2. QED
    BY <2>1
<1>6. p[1] = s /\ p[2] = q /\ s \in Sub
  BY <1>4, <1>5
<1> HIDE DEF type, holds
<1>7. CASE q # r
  <2>1. p \in fresh /\ last'[q] = last[q]
    BY <1>1, <1>5, <1>7
  <2>2. q \in matching'[s] <=> q \in matching[s]
    <3>1. CASE s \in done
      <4>1. matching'[s] = matching[s] \cup {r} \/ matching'[s] = matching[s] \ {r}
        BY <1>1, <3>1
      <4>2. QED
        BY <1>7, <4>1
    <3>2. CASE s \notin done
      BY <1>1, <1>6, <3>2
    <3>3. QED
      BY <3>1, <3>2
  <2>3. QED
    BY <1>6, <2>1, <2>2 DEF MatchStateCurrent
<1>8. CASE q = r /\ s \in done
  <2>1. matching'[s] = IF holds(s) THEN matching[s] \cup {r} ELSE matching[s] \ {r}
    BY <1>1, <1>8
  <2>2. q \in matching'[s] <=> holds(s)
    BY <1>8, <2>1
  <2>3. QED
    BY <1>1, <1>6, <1>8, <2>2 DEF holds
<1>9. CASE q = r /\ s \notin done
  <2>1. p \in fresh /\ s \notin Affected(type)
    BY <1>1, <1>5, <1>9
  <2>2. matching'[s] = matching[s] /\ last'[q] = snapshot
    BY <1>1, <1>6, <1>9
  <2>3. last[r] # None
    BY <1>i, <1>5, <1>9, <2>1 DEF MemoryInv
  <2>4. PICK events \in Seq(EventOf(r)), e \in EventOf(r) :
           /\ events # <<>> /\ last[r] = MakeRun(r, events)
           /\ snapshot = MakeRun(r, Append(events, e))
           /\ e.type = type
    BY <1>0, <2>3, Extends DEF type
  <2>5. LocalAt(s, r, events, e)
    BY <1>6 DEF LocalQuery
  <2>6. Evaluates(SubQuery[s], snapshot) <=> Evaluates(SubQuery[s], last[r])
    BY <1>3, <2>1, <2>4, <2>5 DEF LocalAt
  <2>7. QED
    BY <1>6, <1>9, <2>1, <2>2, <2>6 DEF MatchStateCurrent
<1>10. QED
  BY <1>7, <1>8, <1>9

LEMMA MatchStep ==
  ASSUME \A s \in Sub : LocalQuery(s)
  PROVE  ArriveInv /\ EngineInv /\ MatchStateCurrent /\ [Next]_vars => MatchStateCurrent'
<1> SUFFICES ASSUME ArriveInv, EngineInv, MatchStateCurrent, [Next]_vars
             PROVE  MatchStateCurrent'
  OBVIOUS
<1>1. CASE Still
  BY <1>1 DEF Still, engineVars, MatchStateCurrent
<1>2. ASSUME NEW s \in Late, Register(s) PROVE MatchStateCurrent'
  <2>1. MemoryInv /\ RegisteredInv
    BY DEF EngineInv
  <2>2. /\ fresh' = {p \in fresh : p[1] # s} /\ last' = last
        /\ matching' = [matching EXCEPT ![s] = {}]
    BY <1>2 DEF Register
  <2>3. \A p \in fresh' : p \in fresh /\ p[1] \in Sub /\ matching'[p[1]] = matching[p[1]]
    BY <2>1, <2>2 DEF MemoryInv, RegisteredInv
  <2>4. QED
    BY <2>2, <2>3 DEF MatchStateCurrent
<1>3. QED
  BY <1>1, <1>2, MatchProcess, EngineSteps

(* When every query is local, what a subscription remembers of a run is    *)
(* the truth about the last snapshot the consumer was shown, also of the   *)
(* snapshots that were not evaluated because the type of their event did   *)
(* not concern the query (MatchStateCurrent).                              *)
THEOREM SkippingIsSound ==
  ASSUME \A s \in Sub : LocalQuery(s)
  PROVE  Spec => []MatchStateCurrent
<1>1. Init => MatchStateCurrent
  BY DEF Init, MatchStateCurrent
<1>2. ArriveInv /\ EngineInv /\ MatchStateCurrent /\ [Next]_vars => MatchStateCurrent'
  BY MatchStep
<1>3. QED
  BY <1>1, <1>2, InitArrive, ArriveStep, InitEngine, EngineStep, PTL DEF Spec


(* A run is reported when it begins to match, and goes on matching.        *)
ReportInv ==
  \A s \in Monotone, r \in Run :
    /\ reported[s][r] = IF r \in matching[s] THEN 1 ELSE 0
    /\ r \in matching[s] => Evaluates(SubQuery[s], last[r])

LEMMA ReportProcess ==
  ASSUME ArriveInv, EngineInv, ReportInv, \A s \in Monotone : MonotoneQuery(s),
         NEW done \in SUBSET Sub, NEW raised \in BOOLEAN, Process(done, raised)
  PROVE  ReportInv'
<1>i. RegisteredInv /\ MemoryInv /\ EventsInv
  BY DEF ArriveInv, EngineInv
<1>0. PICK r \in Run, next \in Nat, snapshot \in Snapshot : Shown(r, next, snapshot, done)
  BY ProcessShown
<1> SUFFICES ASSUME NEW s \in Monotone, NEW q \in Run
             PROVE  /\ reported'[s][q] = IF q \in matching'[s] THEN 1 ELSE 0
                    /\ q \in matching'[s] => Evaluates(SubQuery[s], last'[q])
  BY DEF ReportInv
<1>s. s \in Sub
  BY LiveAssumption
<1> DEFINE holds == Evaluates(SubQuery[s], snapshot)
           confirmed == Confirms(s, snapshot)
<1>1. /\ reported[s][q] = IF q \in matching[s] THEN 1 ELSE 0
      /\ q \in matching[s] => Evaluates(SubQuery[s], last[q])
      /\ q \in matching[s] => last[q] # None
      /\ reported[s] \in [Run -> Nat]
  BY <1>i, <1>s DEF ReportInv, MemoryInv
<1>2. /\ last'[r] = snapshot /\ (q # r => last'[q] = last[q])
      /\ matching'[s] = IF s \in done THEN IF holds THEN matching[s] \cup {r} ELSE matching[s] \ {r}
                                      ELSE matching[s]
      /\ reported'[s] = IF s \in done /\ holds /\ r \notin matching[s] /\ confirmed
                        THEN [reported[s] EXCEPT ![r] = @ + 1] ELSE reported[s]
  BY <1>0, <1>s DEF Shown
<1>3. r \in matching[s] => holds
  <2> SUFFICES ASSUME r \in matching[s] PROVE holds
    OBVIOUS
  <2>1. last[r] # None /\ Evaluates(SubQuery[s], last[r])
    BY <1>i, <1>s DEF ReportInv, MemoryInv
  <2>2. PICK events \in Seq(EventOf(r)), e \in EventOf(r) :
           /\ events # <<>> /\ last[r] = MakeRun(r, events)
           /\ snapshot = MakeRun(r, Append(events, e))
    BY <1>0, <2>1, Extends
  <2>3. MonotoneAt(s, r, events, e)
    BY DEF MonotoneQuery
  <2>4. QED
    BY <2>1, <2>2, <2>3 DEF MonotoneAt
<1>4. holds => confirmed
  <2>i. EventsInv /\ next \in 1 .. Stored(r) /\ snapshot = Upto(r, eventsByRun[r], next)
    BY <1>i, <1>0 DEF Shown
  <2> DEFINE events == Taken(eventsByRun[r], next)
  <2>1. events \in Seq(EventOf(r)) /\ Len(events) = next /\ snapshot = MakeRun(r, events)
    BY <2>i, EventTypes, TakenFacts DEF Upto
  <2>2. PICK e \in EventOf(r) : e = eventsByRun[r][next]
    BY <2>i, EventTypes
  <2> HIDE DEF events
  <2>3. events # <<>>
    BY <2>i, <2>1, EmptySeq
  <2>4. MonotoneAt(s, r, events, e)
    BY <2>1, <2>2 DEF MonotoneQuery
  <2>5. QED
    BY <2>1, <2>3, <2>4 DEF MonotoneAt
<1> HIDE DEF holds, confirmed
<1>5. CASE q # r
  BY <1>1, <1>2, <1>5
<1>6. CASE q = r /\ s \in done /\ holds /\ r \notin matching[s]
  <2>1. reported[s][r] = 0 /\ reported'[s][r] = reported[s][r] + 1
    BY <1>1, <1>2, <1>4, <1>6
  <2>2. QED
    BY <1>2, <1>6, <2>1 DEF holds
<1>7. CASE q = r /\ ~ (s \in done /\ holds /\ r \notin matching[s])
  <2>1. reported'[s] = reported[s] /\ (q \in matching'[s] <=> q \in matching[s])
    BY <1>2, <1>3, <1>7
  <2>2. q \in matching[s] => Evaluates(SubQuery[s], last'[q])
    BY <1>2, <1>3, <1>7 DEF holds
  <2>3. QED
    BY <1>1, <2>1, <2>2
<1>8. QED
  BY <1>5, <1>6, <1>7

LEMMA ReportStep ==
  ASSUME \A s \in Monotone : MonotoneQuery(s)
  PROVE  ArriveInv /\ EngineInv /\ ReportInv /\ [Next]_vars => ReportInv'
<1> SUFFICES ASSUME ArriveInv, EngineInv, ReportInv, [Next]_vars PROVE ReportInv'
  OBVIOUS
<1>1. CASE Still
  BY <1>1 DEF Still, engineVars, ReportInv
<1>2. ASSUME NEW s \in Late, Register(s) PROVE ReportInv'
  <2>1. MemoryInv /\ Monotone \subseteq Sub
    BY LiveAssumption DEF EngineInv
  <2>2. /\ last' = last /\ matching' = [matching EXCEPT ![s] = {}]
        /\ reported' = [reported EXCEPT ![s] = NoRuns]
    BY <1>2 DEF Register
  <2>3. \A q \in Monotone : \/ matching'[q] = {} /\ reported'[q] = NoRuns
                            \/ matching'[q] = matching[q] /\ reported'[q] = reported[q]
    BY <2>1, <2>2 DEF MemoryInv
  <2>4. \A r \in Run : NoRuns[r] = 0
    BY DEF NoRuns
  <2>5. QED
    BY <2>2, <2>3, <2>4 DEF ReportInv
<1>3. QED
  BY <1>1, <1>2, ReportProcess, EngineSteps

(* A run whose match can only come true is reported to a subscription at   *)
(* most once between two registrations, also when callbacks raise, and as  *)
(* soon as a snapshot of it matches (ReportedOnce).                        *)
THEOREM ReportedAsItMatches ==
  ASSUME \A s \in Sub : LocalQuery(s), \A s \in Monotone : MonotoneQuery(s)
  PROVE  Spec => []ReportedOnce
<1>1. Init => ReportInv
  BY LiveAssumption DEF Init, NoRuns, ReportInv
<1>2. ArriveInv /\ EngineInv /\ ReportInv /\ [Next]_vars => ReportInv'
  BY ReportStep
<1>3. MatchStateCurrent /\ ReportInv => ReportedOnce
  <2> SUFFICES ASSUME MatchStateCurrent, ReportInv, NEW s \in Monotone, NEW r \in Run
               PROVE  /\ reported[s][r] <= 1
                      /\ <<s, r>> \in fresh =>
                           (reported[s][r] = 1 <=> Evaluates(SubQuery[s], last[r]))
    BY DEF ReportedOnce
  <2>1. reported[s][r] = IF r \in matching[s] THEN 1 ELSE 0
    BY DEF ReportInv
  <2>2. <<s, r>> \in fresh => (r \in matching[s] <=> Evaluates(SubQuery[s], last[r]))
    BY DEF MatchStateCurrent
  <2>3. QED
    BY <2>1, <2>2
<1>4. Spec => []MatchStateCurrent
  BY SkippingIsSound
<1>5. QED
  BY <1>1, <1>2, <1>3, <1>4, InitArrive, ArriveStep, InitEngine, EngineStep, PTL DEF Spec
=============================================================================
