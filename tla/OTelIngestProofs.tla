---------------------------- MODULE OTelIngestProofs ----------------------------
(***************************************************************************)
(* Proofs about OTelIngest, for every export, however its files repeat,    *)
(* cut short or reorder spans, any number of calls, and a writer that      *)
(* commits and a process that dies at any time.  Nothing is assumed of the *)
(* trees: orphans and cycles are allowed.                                  *)
(***************************************************************************)
EXTENDS OTelIngest, SequenceFacts, FiniteSetTheorems

-----------------------------------------------------------------------------
(* The walk yields a sequence, whatever the tree.                          *)

IsWalk(w) == /\ w = [stack |-> w.stack, visited |-> w.visited, out |-> w.out]
             /\ \E E : w.out \in Seq(E)

LEMMA LongerOut ==
  ASSUME NEW out, NEW x, \E E : out \in Seq(E)
  PROVE  \E E : Append(out, x) \in Seq(E)
<1>1. PICK E : out \in Seq(E)
  OBVIOUS
<1>2. out \in Seq(E \cup {x})
  <2>1. Len(out) \in Nat /\ out \in [1 .. Len(out) -> E] /\ DOMAIN out = 1 .. Len(out)
    BY <1>1, LenProperties
  <2>2. out \in [1 .. Len(out) -> E \cup {x}]
    BY <2>1
  <2>3. QED
    BY <2>1, <2>2, SeqDef
<1>3. Append(out, x) \in Seq(E \cup {x})
  BY <1>2, AppendProperties
<1>4. QED
  BY <1>3

LEMMA TurnKeepsWalk ==
  ASSUME NEW tree, NEW S, NEW failed, NEW w, IsWalk(w)
  PROVE  IsWalk(Turn(tree, S, failed, w))
<1> DEFINE s == Last(w.stack).span
           Event(suffix) == [span |-> s, step |-> StepOf(tree, s), part |-> suffix]
<1>1. /\ w = [stack |-> w.stack, visited |-> w.visited, out |-> w.out]
      /\ \E E : w.out \in Seq(E)
  BY DEF IsWalk
<1>2. \A suffix : \E E : Append(w.out, Event(suffix)) \in Seq(E)
  BY <1>1, LongerOut
<1>3. CASE w.stack = <<>>
  BY <1>3 DEF Turn
<1>4. CASE w.stack # <<>> /\ Last(w.stack).closing
  <2> DEFINE suffix == IF s \in failed THEN "error" ELSE "end"
  <2>1. Turn(tree, S, failed, w)
          = [w EXCEPT !.stack = Front(w.stack), !.out = Append(w.out, Event(suffix))]
    BY <1>4 DEF Turn
  <2>2. \E E : Append(w.out, Event(suffix)) \in Seq(E)
    BY <1>2
  <2> HIDE DEF Event, suffix, s
  <2>3. Turn(tree, S, failed, w)
          = [stack |-> Front(w.stack), visited |-> w.visited,
             out |-> Append(w.out, Event(suffix))]
    BY <1>1, <2>1
  <2>4. QED
    BY <2>2, <2>3 DEF IsWalk
<1>5. CASE w.stack # <<>> /\ ~ Last(w.stack).closing /\ s \in w.visited
  <2>1. Turn(tree, S, failed, w) = [w EXCEPT !.stack = Front(w.stack)]
    BY <1>5 DEF Turn
  <2>2. Turn(tree, S, failed, w)
          = [stack |-> Front(w.stack), visited |-> w.visited, out |-> w.out]
    BY <1>1, <2>1
  <2>3. QED
    BY <1>1, <2>2 DEF IsWalk
<1>6. CASE w.stack # <<>> /\ ~ Last(w.stack).closing /\ s \notin w.visited
  <2> DEFINE out == IF StepOf(tree, s) # "none" THEN Append(w.out, Event("start"))
                    ELSE w.out
  <2>1. Turn(tree, S, failed, w)
          = [stack |-> Front(w.stack) \o Pushed(tree, S, s),
             visited |-> w.visited \cup {s}, out |-> out]
    BY <1>6 DEF Turn
  <2>2. \E E : out \in Seq(E)
    BY <1>1, <1>2
  <2> HIDE DEF out
  <2>3. QED
    BY <2>1, <2>2 DEF IsWalk
<1>7. QED
  BY <1>3, <1>4, <1>5, <1>6

(* The states of the loop after each of its first n turns.                 *)
Begun(tree, S) == [stack |-> Visits(Roots(tree, S)), visited |-> {}, out |-> <<>>]

IsRun(tree, S, failed, n, f) ==
  f = [m \in 0 .. n |-> IF m = 0 THEN Begun(tree, S) ELSE Turn(tree, S, failed, f[m - 1])]

LEMMA LoopRuns ==
  ASSUME NEW tree, NEW S, NEW failed, NEW n \in Nat
  PROVE  \E f : IsRun(tree, S, failed, n, f)
<1> DEFINE T == {k \in Nat : \E f : IsRun(tree, S, failed, k, f)}
<1>1. 0 \in T
  <2> DEFINE f == [m \in 0 .. 0 |-> Begun(tree, S)]
  <2>1. f = [m \in 0 .. 0 |-> IF m = 0 THEN Begun(tree, S)
                              ELSE Turn(tree, S, failed, f[m - 1])]
    OBVIOUS
  <2> HIDE DEF f
  <2>2. IsRun(tree, S, failed, 0, f)
    BY <2>1 DEF IsRun
  <2>3. QED
    BY <2>2
<1>2. ASSUME NEW k \in T PROVE k + 1 \in T
  <2>1. PICK f : IsRun(tree, S, failed, k, f)
    OBVIOUS
  <2> DEFINE g == [m \in 0 .. k + 1 |->
                     IF m = k + 1 THEN Turn(tree, S, failed, f[k]) ELSE f[m]]
  <2>2. \A m \in 0 .. k : f[m] = IF m = 0 THEN Begun(tree, S)
                                 ELSE Turn(tree, S, failed, f[m - 1])
    BY <2>1 DEF IsRun
  <2>3. ASSUME NEW m \in 0 .. k + 1
        PROVE  g[m] = IF m = 0 THEN Begun(tree, S) ELSE Turn(tree, S, failed, g[m - 1])
    <3>1. CASE m = k + 1
      <4>1. m # 0 /\ m - 1 = k /\ k \in 0 .. k + 1 /\ k # k + 1
        BY <3>1
      <4>2. g[m] = Turn(tree, S, failed, f[k]) /\ g[k] = f[k]
        BY <3>1, <4>1
      <4>3. QED
        BY <4>1, <4>2
    <3>2. CASE m # k + 1
      <4>1. m \in 0 .. k /\ (m # 0 => m - 1 \in 0 .. k + 1 /\ m - 1 # k + 1)
        BY <3>2
      <4>2. g[m] = f[m] /\ (m # 0 => g[m - 1] = f[m - 1])
        BY <3>2, <4>1
      <4>3. QED
        BY <2>2, <4>1, <4>2
    <3>3. QED
      BY <3>1, <3>2
  <2>4. g = [m \in 0 .. k + 1 |-> g[m]]
    OBVIOUS
  <2> HIDE DEF g
  <2>5. IsRun(tree, S, failed, k + 1, g)
    BY <2>3, <2>4 DEF IsRun
  <2>6. QED
    BY <2>5
<1>3. T = Nat
  <2> HIDE DEF T
  <2>1. T \in SUBSET Nat
    BY DEF T
  <2>2. QED
    BY <1>1, <1>2, <2>1, SetInduction
<1>4. QED
  BY <1>3

LEMMA EmitIsSequence ==
  ASSUME NEW tree, NEW S, NEW failed, Cardinality(S) \in Nat
  PROVE  \E E : Emit(tree, S, failed) \in Seq(E)
<1> DEFINE N == 2 * Cardinality(S)
           chosen == CHOOSE f : IsRun(tree, S, failed, N, f)
<1>1. N \in Nat
  OBVIOUS
<1>2. Emit(tree, S, failed) = chosen[N].out
  BY DEF Emit, IsRun, Begun
<1> HIDE DEF N
<1>3. IsRun(tree, S, failed, N, chosen)
  BY <1>1, LoopRuns
<1> HIDE DEF chosen
<1>4. \A m \in 0 .. N : chosen[m] = IF m = 0 THEN Begun(tree, S)
                                    ELSE Turn(tree, S, failed, chosen[m - 1])
  BY <1>3 DEF IsRun
<1> DEFINE T == {m \in Nat : m <= N => IsWalk(chosen[m])}
<1>5. 0 \in T
  <2>1. chosen[0] = Begun(tree, S)
    BY <1>1, <1>4
  <2>2. <<>> \in Seq({})
    BY EmptySeq
  <2>3. IsWalk(Begun(tree, S))
    BY <2>2 DEF Begun, IsWalk
  <2>4. QED
    BY <2>1, <2>3
<1>6. ASSUME NEW m \in T PROVE m + 1 \in T
  <2> SUFFICES ASSUME m + 1 <= N PROVE IsWalk(chosen[m + 1])
    OBVIOUS
  <2>1. m \in Nat /\ m <= N /\ m + 1 \in 0 .. N /\ m + 1 # 0 /\ m + 1 - 1 = m
    BY <1>1
  <2>2. IsWalk(chosen[m])
    BY <2>1
  <2>3. chosen[m + 1] = Turn(tree, S, failed, chosen[m])
    BY <1>4, <2>1
  <2>4. QED
    BY <2>2, <2>3, TurnKeepsWalk
<1>7. T = Nat
  <2> HIDE DEF T
  <2>1. T \in SUBSET Nat
    BY DEF T
  <2>2. QED
    BY <1>5, <1>6, <2>1, SetInduction
<1>8. IsWalk(chosen[N])
  BY <1>1, <1>7
<1>9. QED
  BY <1>2, <1>8 DEF IsWalk

-----------------------------------------------------------------------------
(* The events of a trace.                                                  *)

LEMMA SpansAreFinite ==
  ASSUME NEW copies \in Seq(Copy), NEW t
  PROVE  IsFiniteSet(SpansIn(copies, t)) /\ Cardinality(SpansIn(copies, t)) \in Nat
<1> DEFINE places == 1 .. Len(copies)
           spanAt == [i \in places |-> copies[i].span]
<1>1. Len(copies) \in Nat /\ DOMAIN copies = places
  BY LenProperties
<1>2. IsFiniteSet(places)
  <2>1. 1 \in Int /\ Len(copies) \in Int
    BY <1>1
  <2>2. QED
    BY <2>1, FS_Interval
<1>3. spanAt \in Surjection(places, SpansOf(copies))
  <2>1. SpansOf(copies) = {copies[i].span : i \in places}
    BY <1>1 DEF SpansOf
  <2> HIDE DEF places
  <2>2. spanAt \in [places -> SpansOf(copies)]
    BY <2>1
  <2>3. \A s \in SpansOf(copies) : \E i \in places : spanAt[i] = s
    BY <2>1
  <2>4. QED
    BY <2>2, <2>3 DEF Surjection
<1>4. IsFiniteSet(SpansOf(copies))
  BY <1>2, <1>3, FS_Surjection
<1>5. SpansIn(copies, t) \in SUBSET SpansOf(copies)
  BY DEF SpansIn
<1>6. IsFiniteSet(SpansIn(copies, t))
  BY <1>4, <1>5, FS_Subset
<1>7. QED
  BY <1>6, FS_CardinalityType

(* They are a sequence that is numbered from 0, all of the trace's run.    *)
LEMMA EventsOfTrace ==
  ASSUME NEW tree, NEW copies \in Seq(Copy), NEW t
  PROVE  /\ TraceEvents(tree, copies, t) \in Seq(Range(TraceEvents(tree, copies, t)))
         /\ \A i \in 1 .. Len(TraceEvents(tree, copies, t)) :
              /\ TraceEvents(tree, copies, t)[i].run = RunIdOf[t]
              /\ TraceEvents(tree, copies, t)[i].seq = i - 1
<1> DEFINE emitted == Emit(tree, SpansIn(copies, t), Failed(copies, t))
           n == Len(emitted)
           events == TraceEvents(tree, copies, t)
           Numbered(i) == [run |-> RunIdOf[t], seq |-> i - 1, span |-> emitted[i].span,
                           step |-> emitted[i].step, part |-> emitted[i].part]
<1>1. PICK E : emitted \in Seq(E)
  BY SpansAreFinite, EmitIsSequence
<1>2. n \in Nat /\ DOMAIN emitted = 1 .. n
  BY <1>1, LenProperties
<1>3. events = [i \in 1 .. n |-> Numbered(i)]
  BY <1>2 DEF TraceEvents
<1> HIDE DEF n, emitted, events
<1>4. DOMAIN events = 1 .. n /\ \A i \in 1 .. n : events[i] = Numbered(i)
  BY <1>3
<1>5. events \in [1 .. n -> Range(events)]
  <2>1. \A i \in 1 .. n : events[i] \in Range(events)
    BY <1>4 DEF Range
  <2>2. events = [i \in 1 .. n |-> events[i]]
    BY <1>3
  <2>3. QED
    BY <2>1, <2>2
<1>6. events \in Seq(Range(events)) /\ Len(events) = n
  <2>1. events \in Seq(Range(events))
    BY <1>2, <1>5, SeqDef
  <2>2. DOMAIN events = 1 .. Len(events) /\ Len(events) \in Nat
    BY <2>1, LenProperties
  <2>3. QED
    BY <1>2, <1>4, <2>1, <2>2
<1>7. \A i \in 1 .. n : events[i].run = RunIdOf[t] /\ events[i].seq = i - 1
  BY <1>4
<1>8. QED
  BY <1>6, <1>7 DEF events

(* What a file is taken to: its traces, each once, in some order.          *)
NamedIn(copies) == {TraceOf[copies[i].span] : i \in DOMAIN copies}

Lists(q, copies) ==
  /\ q \in Seq(NamedIn(copies))
  /\ \A i, j \in 1 .. Len(q) : q[i] = q[j] => i = j

LEMMA ListsGrows ==
  ASSUME NEW copies, NEW q, Lists(q, copies), NEW t \in NamedIn(copies)
  PROVE  Lists(IF t \in ToSet(q) THEN q ELSE Append(q, t), copies)
<1>1. CASE t \in ToSet(q)
  BY <1>1
<1>2. CASE t \notin ToSet(q)
  <2>1. /\ q \in Seq(NamedIn(copies)) /\ Len(q) \in Nat /\ DOMAIN q = 1 .. Len(q)
        /\ \A i, j \in 1 .. Len(q) : q[i] = q[j] => i = j
    BY LenProperties DEF Lists
  <2>2. \A i \in 1 .. Len(q) : q[i] # t
    BY <1>2, <2>1 DEF ToSet
  <2> DEFINE p == Append(q, t)
  <2>3. /\ p \in Seq(NamedIn(copies)) /\ Len(p) = Len(q) + 1
        /\ p[Len(q) + 1] = t /\ \A i \in 1 .. Len(q) : p[i] = q[i]
    BY <2>1, AppendProperties
  <2> HIDE DEF p
  <2>4. ASSUME NEW i \in 1 .. Len(p), NEW j \in 1 .. Len(p), p[i] = p[j]
        PROVE  i = j
    <3>1. /\ i \in 1 .. Len(q) \/ i = Len(q) + 1
          /\ j \in 1 .. Len(q) \/ j = Len(q) + 1
      BY <2>1, <2>3
    <3>2. QED
      BY <2>1, <2>2, <2>3, <2>4, <3>1
  <2>5. Lists(p, copies)
    BY <2>3, <2>4 DEF Lists
  <2>6. QED
    BY <1>2, <2>5 DEF p
<1>3. QED
  BY <1>1, <1>2

IsScan(copies, n, f) ==
  f = [m \in 0 .. n |->
         IF m = 0 THEN <<>>
         ELSE IF TraceOf[copies[m].span] \in ToSet(f[m - 1]) THEN f[m - 1]
         ELSE Append(f[m - 1], TraceOf[copies[m].span])]

LEMMA ScanExists ==
  ASSUME NEW copies, NEW n \in Nat
  PROVE  \E f : IsScan(copies, n, f)
<1> DEFINE T == {k \in Nat : \E f : IsScan(copies, k, f)}
           Longer(q, m) == IF TraceOf[copies[m].span] \in ToSet(q) THEN q
                           ELSE Append(q, TraceOf[copies[m].span])
<1>1. 0 \in T
  <2> DEFINE f == [m \in 0 .. 0 |-> <<>>]
  <2>1. f = [m \in 0 .. 0 |-> IF m = 0 THEN <<>> ELSE Longer(f[m - 1], m)]
    OBVIOUS
  <2> HIDE DEF f
  <2>2. IsScan(copies, 0, f)
    BY <2>1 DEF IsScan
  <2>3. QED
    BY <2>2
<1>2. ASSUME NEW k \in T PROVE k + 1 \in T
  <2>1. PICK f : IsScan(copies, k, f)
    OBVIOUS
  <2> DEFINE g == [m \in 0 .. k + 1 |-> IF m = k + 1 THEN Longer(f[k], k + 1) ELSE f[m]]
  <2>2. \A m \in 0 .. k : f[m] = IF m = 0 THEN <<>> ELSE Longer(f[m - 1], m)
    BY <2>1 DEF IsScan
  <2> HIDE DEF Longer
  <2>3. ASSUME NEW m \in 0 .. k + 1
        PROVE  g[m] = IF m = 0 THEN <<>> ELSE Longer(g[m - 1], m)
    <3>1. CASE m = k + 1
      <4>1. m # 0 /\ m - 1 = k /\ k \in 0 .. k + 1 /\ k # k + 1
        BY <3>1
      <4>2. g[m] = Longer(f[k], m) /\ g[k] = f[k]
        BY <3>1, <4>1
      <4>3. QED
        BY <4>1, <4>2
    <3>2. CASE m # k + 1
      <4>1. m \in 0 .. k /\ (m # 0 => m - 1 \in 0 .. k + 1 /\ m - 1 # k + 1)
        BY <3>2
      <4>2. g[m] = f[m] /\ (m # 0 => g[m - 1] = f[m - 1])
        BY <3>2, <4>1
      <4>3. QED
        BY <2>2, <4>1, <4>2
    <3>3. QED
      BY <3>1, <3>2
  <2>4. g = [m \in 0 .. k + 1 |-> g[m]]
    OBVIOUS
  <2> HIDE DEF g
  <2>5. IsScan(copies, k + 1, g)
    <3>1. g = [m \in 0 .. k + 1 |-> IF m = 0 THEN <<>> ELSE Longer(g[m - 1], m)]
      BY <2>3, <2>4
    <3>2. QED
      BY <3>1 DEF IsScan, Longer
  <2>6. QED
    BY <2>5
<1>3. T = Nat
  <2> HIDE DEF T
  <2>1. T \in SUBSET Nat
    BY DEF T
  <2>2. QED
    BY <1>1, <1>2, <2>1, SetInduction
<1>4. QED
  BY <1>3

LEMMA TracesAreListed ==
  ASSUME NEW copies \in Seq(Copy)
  PROVE  Lists(TracesOf(copies), copies)
<1> DEFINE N == Len(copies)
           chosen == CHOOSE f : IsScan(copies, N, f)
<1>1. N \in Nat /\ DOMAIN copies = 1 .. N
  BY LenProperties
<1>2. TracesOf(copies) = chosen[N]
  BY DEF TracesOf, IsScan
<1>3. IsScan(copies, N, chosen)
  BY <1>1, ScanExists
<1> HIDE DEF chosen, N
<1>4. \A m \in 0 .. N : chosen[m] =
        IF m = 0 THEN <<>>
        ELSE IF TraceOf[copies[m].span] \in ToSet(chosen[m - 1]) THEN chosen[m - 1]
        ELSE Append(chosen[m - 1], TraceOf[copies[m].span])
  BY <1>3 DEF IsScan
<1> DEFINE T == {m \in Nat : m <= N => Lists(chosen[m], copies)}
<1>5. 0 \in T
  <2>1. chosen[0] = <<>>
    BY <1>1, <1>4
  <2>2. <<>> \in Seq(NamedIn(copies)) /\ Len(<<>>) = 0
    BY EmptySeq
  <2>3. Lists(<<>>, copies)
    BY <2>2 DEF Lists
  <2>4. QED
    BY <2>1, <2>3
<1>6. ASSUME NEW m \in T PROVE m + 1 \in T
  <2> SUFFICES ASSUME m + 1 <= N PROVE Lists(chosen[m + 1], copies)
    OBVIOUS
  <2>1. /\ m \in Nat /\ m <= N /\ m + 1 \in 0 .. N /\ m + 1 # 0 /\ m + 1 - 1 = m
        /\ m + 1 \in 1 .. N
    BY <1>1
  <2>2. Lists(chosen[m], copies)
    BY <2>1
  <2>3. TraceOf[copies[m + 1].span] \in NamedIn(copies)
    BY <1>1, <2>1 DEF NamedIn
  <2>4. chosen[m + 1] = IF TraceOf[copies[m + 1].span] \in ToSet(chosen[m]) THEN chosen[m]
                        ELSE Append(chosen[m], TraceOf[copies[m + 1].span])
    BY <1>4, <2>1
  <2>5. QED
    BY <2>2, <2>3, <2>4, ListsGrows
<1>7. T = Nat
  <2> HIDE DEF T
  <2>1. T \in SUBSET Nat
    BY DEF T
  <2>2. QED
    BY <1>5, <1>6, <2>1, SetInduction
<1>8. QED
  BY <1>1, <1>2, <1>7

-----------------------------------------------------------------------------
(* The copy that is kept.                                                  *)

Later(copies, i, j) == \/ copies[i].end > copies[j].end
                       \/ copies[i].end = copies[j].end /\ i >= j

UpTo(at, n) == {i \in at : i <= n}

IsLatest(copies, at, i) == i \in at /\ \A j \in at : Later(copies, i, j)

LEMMA UpToFacts ==
  ASSUME NEW at, \A i \in at : i \in Nat /\ 1 <= i, NEW n \in Nat
  PROVE  /\ UpTo(at, 0) = {}
         /\ UpTo(at, n + 1) = UpTo(at, n) \cup (IF n + 1 \in at THEN {n + 1} ELSE {})
         /\ (\A i \in at : i <= n) => UpTo(at, n) = at
         /\ \A i \in UpTo(at, n) : i \in at /\ i <= n
  BY DEF UpTo

LEMMA LatestExists ==
  ASSUME NEW copies \in Seq(Copy), NEW at \in SUBSET (1 .. Len(copies)), at # {}
  PROVE  \E i : IsLatest(copies, at, i)
<1>1. Len(copies) \in Nat /\ \A i \in 1 .. Len(copies) : copies[i].end \in Nat
  <2>1. \A i \in 1 .. Len(copies) : copies[i] \in Copy
    BY ElementOfSeq
  <2>2. QED
    BY <2>1, LenProperties DEF Copy
<1>2. \A i \in at : i \in Nat /\ 1 <= i /\ i <= Len(copies)
  <2>1. \A i \in at : i \in 1 .. Len(copies)
    OBVIOUS
  <2>2. QED
    BY <1>1, <2>1
<1> DEFINE T == {n \in Nat : UpTo(at, n) # {} => \E i : IsLatest(copies, UpTo(at, n), i)}
<1>3. 0 \in T
  <2>1. UpTo(at, 0) = {}
    BY <1>2, UpToFacts
  <2>2. QED
    BY <2>1
<1>4. ASSUME NEW n \in T PROVE n + 1 \in T
  <2> SUFFICES ASSUME UpTo(at, n + 1) # {} PROVE \E i : IsLatest(copies, UpTo(at, n + 1), i)
    <3>1. n \in Nat /\ n + 1 \in Nat
      OBVIOUS
    <3>2. QED
      BY <3>1
  <2>1. n \in Nat
    OBVIOUS
  <2>2. UpTo(at, n + 1) = UpTo(at, n) \cup (IF n + 1 \in at THEN {n + 1} ELSE {})
    BY <1>2, <2>1, UpToFacts
  <2>3. \A i \in UpTo(at, n + 1) : i \in Nat /\ i <= n + 1 /\ copies[i].end \in Nat
    BY <1>1, <1>2, <2>1 DEF UpTo
  <2>4. UpTo(at, n) # {} => \E i : IsLatest(copies, UpTo(at, n), i)
    OBVIOUS
  <2>5. CASE n + 1 \notin at
    <3>1. UpTo(at, n + 1) = UpTo(at, n)
      BY <2>2, <2>5
    <3>2. QED
      BY <2>4, <3>1
  <2>6. CASE n + 1 \in at /\ UpTo(at, n) = {}
    <3>1. UpTo(at, n + 1) = {n + 1}
      BY <2>2, <2>6
    <3>2. IsLatest(copies, UpTo(at, n + 1), n + 1)
      BY <2>1, <3>1 DEF IsLatest, Later
    <3>3. QED
      BY <3>2
  <2>7. CASE n + 1 \in at /\ UpTo(at, n) # {}
    <3>1. PICK i : IsLatest(copies, UpTo(at, n), i)
      BY <2>4, <2>7
    <3>2. i \in UpTo(at, n) /\ \A j \in UpTo(at, n) : Later(copies, i, j)
      BY <3>1 DEF IsLatest
    <3>3. UpTo(at, n + 1) = UpTo(at, n) \cup {n + 1}
      BY <2>2, <2>7
    <3>4. n + 1 \in UpTo(at, n + 1) /\ i \in UpTo(at, n + 1)
      BY <3>2, <3>3
    <3>5. copies[i].end \in Nat /\ copies[n + 1].end \in Nat
      BY <2>3, <3>4
    <3>6. CASE copies[i].end > copies[n + 1].end
      <4>1. \A j \in UpTo(at, n + 1) : Later(copies, i, j)
        BY <3>2, <3>3, <3>6 DEF Later
      <4>2. QED
        BY <3>4, <4>1 DEF IsLatest
    <3>7. CASE ~ (copies[i].end > copies[n + 1].end)
      <4>1. ASSUME NEW j \in UpTo(at, n + 1) PROVE Later(copies, n + 1, j)
        <5>1. CASE j = n + 1
          BY <2>1, <5>1 DEF Later
        <5>2. CASE j \in UpTo(at, n)
          <6>1. Later(copies, i, j) /\ copies[j].end \in Nat /\ j \in Nat /\ j <= n + 1
            BY <2>3, <3>2, <5>2
          <6>2. QED
            BY <2>1, <3>5, <3>7, <6>1 DEF Later
        <5>3. QED
          BY <3>3, <5>1, <5>2
      <4>2. QED
        BY <3>4, <4>1 DEF IsLatest
    <3>8. QED
      BY <3>6, <3>7
  <2>8. QED
    BY <2>5, <2>6, <2>7
<1>5. T = Nat
  <2> HIDE DEF T
  <2>1. T \in SUBSET Nat
    BY DEF T
  <2>2. QED
    BY <1>3, <1>4, <2>1, SetInduction
<1>6. UpTo(at, Len(copies)) = at
  BY <1>1, <1>2, UpToFacts
<1>7. QED
  BY <1>1, <1>5, <1>6

(* It is one of the copies of its span that end last.                      *)
LEMMA KeptIsMostComplete ==
  ASSUME NEW copies \in Seq(Copy), NEW s \in SpansOf(copies)
  PROVE  KeptCopy(copies, s) \in MostComplete(copies) /\ KeptCopy(copies, s).span = s
<1> DEFINE at == {i \in DOMAIN copies : copies[i].span = s}
           kept == CHOOSE i : IsLatest(copies, at, i)
<1>1. DOMAIN copies = 1 .. Len(copies) /\ Len(copies) \in Nat
  BY LenProperties
<1>2. at \in SUBSET (1 .. Len(copies)) /\ at # {}
  BY <1>1 DEF SpansOf
<1>3. IsLatest(copies, at, kept)
  BY <1>2, LatestExists
<1>4. KeptCopy(copies, s) = copies[kept]
  <2>1. (CHOOSE i \in at : \A j \in at : \/ copies[i].end > copies[j].end
                                         \/ copies[i].end = copies[j].end /\ i >= j)
          = kept
    BY DEF IsLatest, Later
  <2>2. QED
    BY <2>1 DEF KeptCopy, BestCopy
<1>5. kept \in at /\ \A j \in at : Later(copies, kept, j)
  BY <1>3 DEF IsLatest
<1>6. kept \in 1 .. Len(copies) /\ copies[kept].span = s
  BY <1>1, <1>5
<1> HIDE DEF kept
<1>7. \A j \in 1 .. Len(copies) : copies[j].end \in Nat
  <2>1. \A j \in 1 .. Len(copies) : copies[j] \in Copy
    BY ElementOfSeq
  <2>2. QED
    BY <2>1 DEF Copy
<1>8. ASSUME NEW d \in ToSet(copies), d.span = copies[kept].span
      PROVE  d.end <= copies[kept].end
  <2>1. PICK j \in 1 .. Len(copies) : d = copies[j]
    BY <1>1 DEF ToSet
  <2>2. j \in at
    BY <1>1, <1>6, <1>8, <2>1
  <2>3. Later(copies, kept, j)
    BY <1>5, <2>2
  <2>4. QED
    BY <1>6, <1>7, <2>1, <2>3 DEF Later
<1>9. copies[kept] \in ToSet(copies)
  BY <1>1, <1>6 DEF ToSet
<1>10. QED
  BY <1>4, <1>6, <1>8, <1>9 DEF MostComplete

(* So the spans of a file and those that failed can be read from the       *)
(* copies that end last, when these agree.                                 *)
LEMMA ReadFromMostComplete ==
  ASSUME NEW copies \in Seq(Copy), Unanimous(MostComplete(copies)), NEW t
  PROVE  /\ SpansIn(copies, t)
              = {s \in {c.span : c \in MostComplete(copies)} : TraceOf[s] = t}
         /\ Failed(copies, t)
              = {s \in SpansIn(copies, t) : \E c \in MostComplete(copies) : c.span = s /\ c.error}
<1>1. DOMAIN copies = 1 .. Len(copies) /\ Len(copies) \in Nat
  BY LenProperties
<1>2. SpansOf(copies) = {c.span : c \in MostComplete(copies)}
  <2>1. ASSUME NEW s \in SpansOf(copies)
        PROVE  \E c \in MostComplete(copies) : s = c.span
    BY KeptIsMostComplete
  <2>2. ASSUME NEW c \in MostComplete(copies) PROVE c.span \in SpansOf(copies)
    <3>1. c \in ToSet(copies)
      BY DEF MostComplete
    <3>2. QED
      BY <3>1 DEF ToSet, SpansOf
  <2>3. QED
    BY <2>1, <2>2
<1>3. ASSUME NEW s \in SpansIn(copies, t)
      PROVE  KeptCopy(copies, s).error
               <=> \E c \in MostComplete(copies) : c.span = s /\ c.error
  <2>1. s \in SpansOf(copies)
    BY DEF SpansIn
  <2>2. KeptCopy(copies, s) \in MostComplete(copies) /\ KeptCopy(copies, s).span = s
    BY <2>1, KeptIsMostComplete
  <2>3. \A c \in MostComplete(copies) : c.span = s => c.error = KeptCopy(copies, s).error
    BY <2>2 DEF Unanimous
  <2>4. QED
    BY <2>2, <2>3
<1>4. QED
  BY <1>2, <1>3 DEF SpansIn, Failed

LEMMA EventsAreCanonical ==
  ASSUME NEW tree, NEW f \in Seq(Copy), NEW g \in Seq(Copy), NEW t,
         MostComplete(f) = MostComplete(g), Unanimous(MostComplete(f))
  PROVE  TraceEvents(tree, f, t) = TraceEvents(tree, g, t)
<1>1. /\ SpansIn(f, t) = {s \in {c.span : c \in MostComplete(f)} : TraceOf[s] = t}
      /\ Failed(f, t)
           = {s \in SpansIn(f, t) : \E c \in MostComplete(f) : c.span = s /\ c.error}
  BY ReadFromMostComplete
<1>2. /\ SpansIn(g, t) = {s \in {c.span : c \in MostComplete(g)} : TraceOf[s] = t}
      /\ Failed(g, t)
           = {s \in SpansIn(g, t) : \E c \in MostComplete(g) : c.span = s /\ c.error}
  BY ReadFromMostComplete
<1>3. SpansIn(f, t) = SpansIn(g, t)
  BY <1>1, <1>2
<1>4. Failed(f, t) = Failed(g, t)
  BY <1>1, <1>2, <1>3
<1>5. QED
  BY <1>3, <1>4 DEF TraceEvents

-----------------------------------------------------------------------------
(* The inductive invariant.  What was recorded is the rows of the file and *)
(* behind them the buffer of the writer.                                   *)

Recorded == rows \o buffer
Printed  == {x.run : x \in ingested}

(* The events that an export can give rise to.                             *)
EventsIn(tree, fs) ==
  UNION {Range(TraceEvents(tree, fs[f], t)) : f \in DOMAIN fs, t \in DOMAIN RunIdOf}

FilesOK(fs) ==
  \A f \in DOMAIN fs :
    /\ fs[f] \in Seq(Copy)
    /\ \A t, u \in NamedIn(fs[f]) : RunIdOf[t] = RunIdOf[u] => t = u

IngestTypes ==
  /\ FilesOK(files)
  /\ pc \in {"idle", "file", "recording", "closed"}
  /\ rows \in Seq(EventsIn(shape, files)) /\ buffer \in Seq(EventsIn(shape, files))
  /\ args \in Seq(DOMAIN files) /\ todo \in Seq(DOMAIN RunIdOf)
  /\ asked \subseteq DOMAIN files
  /\ pc # "recording" => todo = <<>> /\ buffer = <<>>
  /\ pc = "recording" => args # <<>>
  /\ pc = "idle" => ingested = {} /\ asked = {}

(* The traces that the loop has still to look at are of different runs,    *)
(* and none of them was recorded since the runs to skip were read.         *)
TodoInv ==
  \A i \in 1 .. Len(todo) :
    /\ \A j \in 1 .. Len(todo) : RunIdOf[todo[i]] = RunIdOf[todo[j]] => i = j
    /\ RunIdOf[todo[i]] \notin existing => RunIdOf[todo[i]] \notin Printed

(* The runs to skip are listed, and what is listed has rows.  A call knows *)
(* every run that is recorded: from before it, or as one of those it will  *)
(* print, unless a death tore it from the table of runs.                   *)
KnownInv ==
  /\ existing \subseteq listed /\ listed \subseteq StoredRuns
  /\ pc \in {"file", "closed"} => Printed \subseteq existing /\ StoredRuns \subseteq listed
  /\ pc = "idle" => StoredRuns \subseteq listed \cup torn
  /\ pc # "idle" =>
       \A i \in 1 .. Len(Recorded) : Recorded[i].run \in existing \cup Printed \cup torn

InSequence(events) == \A i \in 1 .. Len(events) : events[i].seq = i - 1

NumbersInv == \A r : r \notin torn => InSequence(OfRun(Recorded, r))

EndsWith(s, e) == Len(e) <= Len(s) /\ Left(s, Len(s) - Len(e)) = e

PrintedInv ==
  \A x \in ingested :
    /\ x.events \in Seq(EventsIn(shape, files)) /\ x.events # <<>> /\ x.count = Len(x.events)
    /\ EndsWith(OfRun(Recorded, x.run), x.events)
    /\ x.run \notin torn => OfRun(Recorded, x.run) = x.events

(* A trace of a file that was asked for has its run, or nothing to record, *)
(* or the loop has still to look at it.                                    *)
CoveredInv ==
  \A f \in asked : \A t \in ToSet(TracesOf(files[f])) :
    TraceEvents(shape, files[f], t) # <<>> =>
      \/ RunIdOf[t] \in existing \cup Printed
      \/ pc = "recording" /\ f = Head(args) /\ t \in ToSet(todo)

IngestInv ==
  IngestTypes /\ TodoInv /\ KnownInv /\ NumbersInv /\ PrintedInv /\ CoveredInv

LEMMA SeqOver ==
  ASSUME NEW S, NEW T, NEW s \in Seq(S), ToSet(s) \subseteq T
  PROVE  s \in Seq(T)
<1>1. Len(s) \in Nat /\ s \in [1 .. Len(s) -> S] /\ DOMAIN s = 1 .. Len(s)
  BY LenProperties
<1>2. \A i \in 1 .. Len(s) : s[i] \in T
  BY <1>1 DEF ToSet
<1>3. s \in [1 .. Len(s) -> T]
  BY <1>1, <1>2
<1>4. QED
  BY <1>1, <1>3, SeqDef

LEMMA ToSetOfSeq ==
  ASSUME NEW S, NEW s \in Seq(S)
  PROVE  ToSet(s) \subseteq S /\ ToSet(s) = {s[i] : i \in 1 .. Len(s)}
<1>1. Len(s) \in Nat /\ s \in [1 .. Len(s) -> S] /\ DOMAIN s = 1 .. Len(s)
  BY LenProperties
<1>2. QED
  BY <1>1 DEF ToSet

(* The traces of a file, and the events each gives rise to.                *)
LEMMA FileFacts ==
  ASSUME FilesOK(files), NEW f \in DOMAIN files
  PROVE  /\ files[f] \in Seq(Copy)
         /\ NamedIn(files[f]) \subseteq DOMAIN RunIdOf
         /\ Lists(TracesOf(files[f]), files[f])
         /\ TracesOf(files[f]) \in Seq(DOMAIN RunIdOf)
         /\ ToSet(TracesOf(files[f])) \subseteq NamedIn(files[f])
<1>1. files[f] \in Seq(Copy)
  BY DEF FilesOK
<1>2. Lists(TracesOf(files[f]), files[f])
  BY <1>1, TracesAreListed
<1>3. NamedIn(files[f]) \subseteq DOMAIN RunIdOf
  <2>1. \A i \in DOMAIN files[f] : files[f][i].span \in Span
    <3>1. DOMAIN files[f] = 1 .. Len(files[f])
      BY <1>1, LenProperties
    <3>2. \A i \in 1 .. Len(files[f]) : files[f][i] \in Copy
      BY <1>1, ElementOfSeq
    <3>3. QED
      BY <3>1, <3>2 DEF Copy
  <2>2. QED
    BY <2>1, IngestAssumption DEF NamedIn
<1>4. TracesOf(files[f]) \in Seq(NamedIn(files[f]))
  BY <1>2 DEF Lists
<1>5. ToSet(TracesOf(files[f])) \subseteq NamedIn(files[f])
  BY <1>4, ToSetOfSeq
<1>6. TracesOf(files[f]) \in Seq(DOMAIN RunIdOf)
  BY <1>3, <1>4, <1>5, SeqOver
<1>7. QED
  BY <1>1, <1>2, <1>3, <1>5, <1>6

LEMMA EventsAreTyped ==
  ASSUME FilesOK(files), NEW f \in DOMAIN files, NEW t \in DOMAIN RunIdOf
  PROVE  TraceEvents(shape, files[f], t) \in Seq(EventsIn(shape, files))
<1> DEFINE events == TraceEvents(shape, files[f], t)
<1>1. events \in Seq(Range(events))
  BY FileFacts, EventsOfTrace
<1>2. Range(events) \subseteq EventsIn(shape, files)
  BY DEF EventsIn
<1> HIDE DEF events
<1>3. ToSet(events) \subseteq Range(events)
  BY <1>1, ToSetOfSeq
<1>4. events \in Seq(EventsIn(shape, files))
  BY <1>1, <1>2, <1>3, SeqOver
<1>5. QED
  BY <1>4 DEF events

LEMMA InitIngest == Init => IngestInv
<1> SUFFICES ASSUME Init PROVE IngestInv
  OBVIOUS
<1>1. PICK x \in Scenario : shape = x.shape /\ files = x.files
  BY DEF Init
<1>2. FilesOK(files)
  <2>1. \A f \in DOMAIN files :
          /\ files[f] \in Seq(Copy)
          /\ \A i, j \in DOMAIN files[f] :
               RunIdOf[TraceOf[files[f][i].span]] = RunIdOf[TraceOf[files[f][j].span]]
                 => TraceOf[files[f][i].span] = TraceOf[files[f][j].span]
    BY <1>1, IngestAssumption, SMTT(30), ZenonT(30)
  <2>2. QED
    BY <2>1 DEF FilesOK, NamedIn
<1>3. /\ pc = "idle" /\ args = <<>> /\ existing = {} /\ todo = <<>> /\ buffer = <<>>
      /\ ingested = {} /\ rows = <<>> /\ asked = {}
  BY DEF Init
<1>4. IngestTypes
  <2>1. \A S : <<>> \in Seq(S)
    BY EmptySeq
  <2>2. QED
    BY <1>2, <1>3, <2>1 DEF IngestTypes
<1>5. Recorded = <<>>
  <2>1. <<>> \in Seq({})
    BY EmptySeq
  <2>2. QED
    BY <1>3, <2>1, ConcatEmptySeq DEF Recorded
<1>6. NumbersInv
  <2>1. Len(<<>>) = 0
    BY EmptySeq
  <2>2. QED
    BY <1>5, <2>1, OfRunEmpty DEF NumbersInv, InSequence
<1>7. TodoInv
  <2>1. Len(todo) = 0
    BY <1>3, EmptySeq
  <2>2. QED
    BY <2>1 DEF TodoInv
<1>8. KnownInv
  <2>1. StoredRuns = {}
    BY <1>3 DEF StoredRuns
  <2>2. listed = {}
    BY DEF Init
  <2>3. QED
    BY <1>3, <2>1, <2>2 DEF KnownInv
<1>9. PrintedInv /\ CoveredInv
  BY <1>3 DEF PrintedInv, CoveredInv
<1>10. QED
  BY <1>4, <1>6, <1>7, <1>8, <1>9 DEF IngestInv

-----------------------------------------------------------------------------
(* Types.                                                                  *)

LEMMA TypesKept ==
  ASSUME IngestTypes, [Next]_vars
  PROVE  IngestTypes'
<1> USE DEF IngestTypes
<1>1. shape' = shape /\ files' = files
  BY DEF Next, Start, ReadFile, SkipTrace, RecordTrace, Commit, ListRuns, FileDone, Close,
         Exit, Die, vars
<1>2. FilesOK(files)' /\ EventsIn(shape, files)' = EventsIn(shape, files)
  BY <1>1
<1>3. \A S : <<>> \in Seq(S)
  BY EmptySeq
<1>4. CASE UNCHANGED vars
  BY <1>2, <1>4 DEF vars
<1>5. ASSUME NEW list \in Invocation, Start(list) PROVE IngestTypes'
  <2>1. list \in Seq(DOMAIN files)
    <3>1. list \in Seq(Nat)
      BY IngestAssumption
    <3>2. QED
      BY <1>5, <3>1, SeqOver DEF Start
  <2>2. QED
    BY <1>2, <1>5, <2>1 DEF Start
<1>6. CASE ReadFile
  <2>1. Head(args) \in DOMAIN files
    BY <1>6, HeadTailProperties DEF ReadFile
  <2>2. TracesOf(files[Head(args)]) \in Seq(DOMAIN RunIdOf)
    BY <2>1, FileFacts
  <2>3. QED
    BY <1>2, <1>6, <2>1, <2>2 DEF ReadFile
<1>7. CASE SkipTrace
  <2>1. Tail(todo) \in Seq(DOMAIN RunIdOf)
    BY <1>7, HeadTailProperties DEF SkipTrace
  <2>2. QED
    BY <1>2, <1>7, <2>1 DEF SkipTrace
<1>8. CASE RecordTrace
  <2>1. Tail(todo) \in Seq(DOMAIN RunIdOf) /\ Head(todo) \in DOMAIN RunIdOf
    BY <1>8, HeadTailProperties DEF RecordTrace
  <2>2. Head(args) \in DOMAIN files
    BY <1>8, HeadTailProperties DEF RecordTrace
  <2>3. EventsOf(Head(todo)) \in Seq(EventsIn(shape, files))
    BY <2>1, <2>2, EventsAreTyped DEF EventsOf
  <2>4. buffer \o EventsOf(Head(todo)) \in Seq(EventsIn(shape, files))
    BY <2>3, ConcatProperties
  <2>5. QED
    BY <1>2, <1>8, <2>1, <2>4 DEF RecordTrace
<1>9. ASSUME NEW n \in 1 .. Len(buffer), Commit(n) PROVE IngestTypes'
  <2>1. n \in 0 .. Len(buffer)
    BY LenProperties
  <2>2. Taken(buffer, n) \in Seq(EventsIn(shape, files)) /\ Left(buffer, n) \in Seq(EventsIn(shape, files))
    BY <2>1, Split
  <2>3. rows \o Taken(buffer, n) \in Seq(EventsIn(shape, files))
    BY <2>2, ConcatProperties
  <2>4. QED
    BY <1>2, <1>9, <2>2, <2>3 DEF Commit, Taken, Left
<1>10. CASE FileDone
  <2>1. rows \o buffer \in Seq(EventsIn(shape, files))
    BY ConcatProperties
  <2>2. Tail(args) \in Seq(DOMAIN files)
    BY <1>10, HeadTailProperties DEF FileDone
  <2>3. QED
    BY <1>2, <1>3, <1>10, <2>1, <2>2 DEF FileDone
<1>11. CASE Close \/ ListRuns
  BY <1>2, <1>11 DEF Close, ListRuns
<1>12. CASE Exit \/ Die
  BY <1>2, <1>3, <1>12 DEF Exit, Die, Ready
<1>13. QED
  BY <1>4, <1>5, <1>6, <1>7, <1>8, <1>9, <1>10, <1>11, <1>12 DEF Next

-----------------------------------------------------------------------------
(* What a step does to the recorded events: only RecordTrace adds to them, *)
(* and only the end of the process takes some away.                        *)

Steady == \/ UNCHANGED vars \/ ReadFile \/ SkipTrace \/ ListRuns \/ FileDone \/ Close
          \/ \E list \in Invocation : Start(list)
          \/ \E n \in 1 .. Len(buffer) : Commit(n)

LEMMA NextSteps ==
  ASSUME [Next]_vars PROVE Steady \/ RecordTrace \/ Exit \/ Die
BY DEF Next, Steady

LEMMA RecordedSteady ==
  ASSUME IngestTypes, Steady
  PROVE  Recorded' = Recorded
<1> DEFINE E == EventsIn(shape, files)
<1>1. rows \in Seq(E) /\ buffer \in Seq(E)
  BY DEF IngestTypes
<1> HIDE DEF E
<1>2. ASSUME NEW n \in 1 .. Len(buffer), Commit(n) PROVE Recorded' = Recorded
  <2>1. n \in 0 .. Len(buffer)
    BY <1>1, LenProperties
  <2>2. Taken(buffer, n) \in Seq(E) /\ Left(buffer, n) \in Seq(E)
    BY <1>1, <2>1, Split
  <2>3. Taken(buffer, n) \o Left(buffer, n) = buffer
    BY <1>1, <2>1, SplitConcat
  <2> DEFINE taken == Taken(buffer, n)
             left == Left(buffer, n)
  <2>4. rows' = rows \o taken /\ buffer' = left
    BY <1>2 DEF Commit, Taken, Left
  <2>5. taken \in Seq(E) /\ left \in Seq(E) /\ taken \o left = buffer
    BY <2>2, <2>3
  <2> HIDE DEF taken, left
  <2>6. (rows \o taken) \o left = rows \o (taken \o left)
    <3>1. rows \in Seq(E) /\ taken \in Seq(E) /\ left \in Seq(E)
      BY <1>1, <2>5
    <3>2. QED
      BY <3>1, ConcatAssociative, SMTT(30), ZenonT(30)
  <2>7. QED
    BY <2>4, <2>5, <2>6 DEF Recorded
<1>3. CASE FileDone
  <2>1. rows \o buffer \in Seq(E)
    BY <1>1, ConcatProperties
  <2>2. (rows \o buffer) \o <<>> = rows \o buffer
    BY <2>1, ConcatEmptySeq
  <2>3. rows' = rows \o buffer /\ buffer' = <<>>
    BY <1>3 DEF FileDone
  <2>4. QED
    BY <2>2, <2>3 DEF Recorded
<1>4. CASE \/ UNCHANGED vars \/ ReadFile \/ SkipTrace \/ ListRuns \/ Close
           \/ \E list \in Invocation : Start(list)
  BY <1>4 DEF Recorded, ReadFile, SkipTrace, ListRuns, Close, Start, vars
<1>5. QED
  BY <1>2, <1>3, <1>4 DEF Steady

LEMMA RecordedEnds ==
  ASSUME IngestTypes, Exit \/ Die
  PROVE  Recorded' = rows
<1>1. rows' = rows /\ buffer' = <<>>
  BY DEF Exit, Die, Ready
<1>2. rows \in Seq(EventsIn(shape, files))
  BY DEF IngestTypes
<1>3. rows \o <<>> = rows
  BY <1>2, ConcatEmptySeq
<1>4. QED
  BY <1>1, <1>3 DEF Recorded

(* RecordTrace adds the events of a run behind those there are, and there  *)
(* are some only of a run that was torn from the table of runs.            *)
LEMMA RecordedGrows ==
  ASSUME IngestInv, RecordTrace
  PROVE  /\ Head(todo) \in DOMAIN RunIdOf
         /\ Recorded \in Seq(EventsIn(shape, files))
         /\ EventsOf(Head(todo)) \in Seq(EventsIn(shape, files))
         /\ Recorded' = Recorded \o EventsOf(Head(todo))
         /\ InSequence(EventsOf(Head(todo)))
         /\ OfRun(Recorded', RunIdOf[Head(todo)])
              = OfRun(Recorded, RunIdOf[Head(todo)]) \o EventsOf(Head(todo))
         /\ RunIdOf[Head(todo)] \notin torn =>
              OfRun(Recorded', RunIdOf[Head(todo)]) = EventsOf(Head(todo))
         /\ \A r : r # RunIdOf[Head(todo)] => OfRun(Recorded', r) = OfRun(Recorded, r)
         /\ RunIdOf[Head(todo)] \notin Printed
<1> DEFINE E == EventsIn(shape, files)
           run == RunIdOf[Head(todo)]
           new == EventsOf(Head(todo))
<1>1. /\ rows \in Seq(E) /\ buffer \in Seq(E) /\ todo \in Seq(DOMAIN RunIdOf)
      /\ args \in Seq(DOMAIN files) /\ FilesOK(files)
      /\ pc = "recording" /\ args # <<>> /\ todo # <<>>
      /\ buffer' = buffer \o new /\ rows' = rows /\ run \notin existing
  BY DEF IngestInv, IngestTypes, RecordTrace
<1>2. /\ Head(todo) \in DOMAIN RunIdOf /\ Head(args) \in DOMAIN files
      /\ 1 \in 1 .. Len(todo) /\ Head(todo) = todo[1]
  <2>1. Len(todo) \in Nat \ {0}
    BY <1>1, EmptySeq
  <2>2. QED
    BY <1>1, <2>1, HeadTailProperties
<1>3. files[Head(args)] \in Seq(Copy)
  BY <1>1, <1>2, FileFacts
<1>4. /\ new \in Seq(E)
      /\ \A i \in 1 .. Len(new) : new[i].run = run /\ new[i].seq = i - 1
  <2> DEFINE events == TraceEvents(shape, files[Head(args)], Head(todo))
  <2>1. events \in Seq(E)
    BY <1>1, <1>2, EventsAreTyped
  <2>2. \A i \in 1 .. Len(events) : events[i].run = run /\ events[i].seq = i - 1
    BY <1>3, EventsOfTrace
  <2>3. new = events
    BY DEF EventsOf
  <2> HIDE DEF events, new, run, E
  <2>4. QED
    BY <2>1, <2>2, <2>3
<1>5. Recorded \in Seq(E)
  BY <1>1, ConcatProperties DEF Recorded
<1> HIDE DEF E, run, new
<1>6. Recorded' = Recorded \o new
  <2>1. (rows \o buffer) \o new = rows \o (buffer \o new)
    BY <1>1, <1>4, ConcatAssociative, SMTT(30), ZenonT(30)
  <2>2. QED
    BY <1>1, <2>1 DEF Recorded
<1>7. run \notin Printed
  BY <1>1, <1>2 DEF IngestInv, TodoInv, run
<1>8. run \notin torn => \A i \in 1 .. Len(Recorded) : Recorded[i].run # run
  BY <1>1, <1>7 DEF IngestInv, KnownInv
<1>9. run \notin torn => OfRun(Recorded, run) = <<>>
  BY <1>5, <1>8, OfRunNone
<1>10. OfRun(new, run) = new
  BY <1>4, OfRunAll
<1>11. \A r : r # run => OfRun(new, r) = <<>>
  BY <1>4, OfRunNone
<1>12. \A r : OfRun(Recorded \o new, r) = OfRun(Recorded, r) \o OfRun(new, r)
  BY <1>4, <1>5, OfRunConcat
<1>13. <<>> \o new = new
  BY <1>4, ConcatEmptySeq
<1>14. \A r : OfRun(Recorded, r) \in Seq(E)
  BY <1>5, OfRunType
<1>15. \A r : r # run => OfRun(Recorded', r) = OfRun(Recorded, r)
  <2> SUFFICES ASSUME NEW r, r # run PROVE OfRun(Recorded', r) = OfRun(Recorded, r)
    OBVIOUS
  <2>1. OfRun(Recorded', r) = OfRun(Recorded, r) \o <<>>
    BY <1>6, <1>11, <1>12
  <2>2. OfRun(Recorded, r) \o <<>> = OfRun(Recorded, r)
    BY <1>14, ConcatEmptySeq
  <2>3. QED
    BY <2>1, <2>2
<1>16. /\ OfRun(Recorded', run) = OfRun(Recorded, run) \o new
       /\ run \notin torn => OfRun(Recorded', run) = new
  BY <1>6, <1>9, <1>10, <1>12, <1>13
<1>17. InSequence(new)
  BY <1>4 DEF InSequence
<1>18. QED
  BY <1>2, <1>4, <1>5, <1>6, <1>7, <1>15, <1>16, <1>17 DEF E, run, new

-----------------------------------------------------------------------------
(* The runs in the file.                                                   *)

LEMMA RunsInFile ==
  ASSUME NEW S, rows \in Seq(S)
  PROVE  StoredRuns = {rows[i].run : i \in 1 .. Len(rows)}
<1>1. DOMAIN rows = 1 .. Len(rows)
  BY LenProperties
<1>2. QED
  BY <1>1 DEF StoredRuns

(* A committed run is never lost.                                          *)
LEMMA StoredGrows ==
  ASSUME IngestTypes, [Next]_vars
  PROVE  StoredRuns \subseteq StoredRuns'
<1> DEFINE E == EventsIn(shape, files)
<1>1. rows \in Seq(E) /\ buffer \in Seq(E)
  BY DEF IngestTypes
<1> HIDE DEF E
<1>2. ASSUME NEW t \in Seq(E), rows' = rows \o t PROVE StoredRuns \subseteq StoredRuns'
  <2> DEFINE both == rows \o t
  <2>1. /\ both \in Seq(E) /\ Len(both) = Len(rows) + Len(t)
        /\ \A i \in 1 .. Len(rows) + Len(t) :
             both[i] = IF i <= Len(rows) THEN rows[i] ELSE t[i - Len(rows)]
    BY <1>1, ConcatProperties
  <2>2. Len(rows) \in Nat /\ Len(t) \in Nat
    BY <1>1, LenProperties
  <2>3. DOMAIN rows = 1 .. Len(rows) /\ DOMAIN both = 1 .. Len(both)
    BY <1>1, <2>1, LenProperties
  <2> HIDE DEF both
  <2>4. \A i \in 1 .. Len(rows) : i \in 1 .. Len(both) /\ both[i] = rows[i]
    BY <2>1, <2>2
  <2>5. rows' = both
    BY <1>2 DEF both
  <2>6. StoredRuns' = {both[i].run : i \in DOMAIN both}
    BY <2>5 DEF StoredRuns
  <2>7. QED
    BY <2>3, <2>4, <2>6 DEF StoredRuns
<1>3. CASE rows' = rows
  BY <1>3 DEF StoredRuns
<1>4. ASSUME NEW n \in 1 .. Len(buffer), Commit(n) PROVE StoredRuns \subseteq StoredRuns'
  <2>1. n \in 0 .. Len(buffer)
    BY <1>1, LenProperties
  <2>2. Taken(buffer, n) \in Seq(E)
    BY <1>1, <2>1, Split
  <2>3. rows' = rows \o Taken(buffer, n)
    BY <1>4 DEF Commit, Taken
  <2>4. QED
    BY <1>2, <2>2, <2>3
<1>5. CASE FileDone
  <2>1. rows' = rows \o buffer
    BY <1>5 DEF FileDone
  <2>2. QED
    BY <1>1, <1>2, <2>1
<1>6. QED
  BY <1>3, <1>4, <1>5 DEF Next, Start, ReadFile, SkipTrace, RecordTrace, ListRuns, Close,
                          Exit, Die, vars

(* A summary stands for a run with events.                                 *)
LEMMA PrintedIsRecorded ==
  ASSUME IngestTypes, PrintedInv, NEW p \in Printed
  PROVE  \E i \in 1 .. Len(Recorded) : Recorded[i].run = p
<1>1. PICK x \in ingested : p = x.run
  BY DEF Printed
<1>2. /\ x.events \in Seq(EventsIn(shape, files)) /\ x.events # <<>>
      /\ Len(x.events) <= Len(OfRun(Recorded, p))
  BY <1>1 DEF PrintedInv, EndsWith
<1>3. Len(x.events) \in Nat /\ Len(x.events) # 0 /\ Len(<<>>) = 0
  BY <1>2, EmptySeq, LenProperties
<1>4. OfRun(Recorded, p) # <<>>
  BY <1>2, <1>3
<1>5. Recorded \in Seq(EventsIn(shape, files))
  BY ConcatProperties DEF IngestTypes, Recorded
<1>6. QED
  BY <1>4, <1>5, OfRunNone

(* The flush at the end of a file puts what was recorded into the file.    *)
LEMMA FlushStores ==
  ASSUME IngestTypes, PrintedInv, FileDone
  PROVE  Printed \subseteq StoredRuns'
<1> DEFINE E == EventsIn(shape, files)
<1>1. Recorded \in Seq(E)
  BY ConcatProperties DEF IngestTypes, Recorded
<1>2. rows' = Recorded
  BY DEF FileDone, Recorded
<1>3. DOMAIN Recorded = 1 .. Len(Recorded)
  BY <1>1, LenProperties
<1>4. StoredRuns' = {Recorded[i].run : i \in 1 .. Len(Recorded)}
  BY <1>2, <1>3 DEF StoredRuns
<1>5. QED
  BY <1>4, PrintedIsRecorded

LEMMA TailFacts ==
  ASSUME NEW S, NEW s \in Seq(S), s # <<>>
  PROVE  /\ Head(s) = s[1] /\ 1 \in 1 .. Len(s) /\ Len(Tail(s)) = Len(s) - 1
         /\ \A i \in 1 .. Len(Tail(s)) : Tail(s)[i] = s[i + 1] /\ i + 1 \in 1 .. Len(s)
         /\ ToSet(s) = {Head(s)} \cup ToSet(Tail(s))
<1> DEFINE t == Tail(s)
<1>1. /\ Len(s) \in Nat \ {0} /\ Head(s) = s[1] /\ t \in Seq(S)
      /\ Len(t) = Len(s) - 1 /\ \A i \in 1 .. Len(t) : t[i] = s[i + 1]
  <2>1. Len(s) \in Nat /\ Len(s) # 0
    BY EmptySeq, LenProperties
  <2>2. QED
    BY <2>1, HeadTailProperties
<1>2. ToSet(s) = {s[i] : i \in 1 .. Len(s)} /\ ToSet(t) = {t[i] : i \in 1 .. Len(t)}
  BY <1>1, ToSetOfSeq
<1> HIDE DEF t
<1>3. 1 \in 1 .. Len(s) /\ \A i \in 1 .. Len(t) : i + 1 \in 1 .. Len(s)
  BY <1>1
<1>4. ASSUME NEW i \in 1 .. Len(s) PROVE s[i] \in {Head(s)} \cup ToSet(t)
  <2>1. CASE i = 1
    BY <1>1, <2>1
  <2>2. CASE i # 1
    <3>1. i - 1 \in 1 .. Len(t) /\ (i - 1) + 1 = i
      BY <1>1, <2>2
    <3>2. t[i - 1] = s[i]
      BY <1>1, <3>1
    <3>3. QED
      BY <1>2, <3>1, <3>2
  <2>3. QED
    BY <2>1, <2>2
<1>5. ToSet(s) = {Head(s)} \cup ToSet(t)
  BY <1>1, <1>2, <1>3, <1>4
<1>6. QED
  BY <1>1, <1>3, <1>5 DEF t

LEMMA PrintedGrows ==
  ASSUME RecordTrace
  PROVE  Printed' = Printed \cup {RunIdOf[Head(todo)]}
<1> DEFINE new == [run |-> RunIdOf[Head(todo)], count |-> Len(EventsOf(Head(todo))),
                   events |-> EventsOf(Head(todo))]
<1>1. ingested' = ingested \cup {new} /\ new.run = RunIdOf[Head(todo)]
  BY DEF RecordTrace
<1> HIDE DEF new
<1>2. Printed' = {x.run : x \in ingested \cup {new}}
  BY <1>1 DEF Printed
<1>3. QED
  BY <1>1, <1>2 DEF Printed

-----------------------------------------------------------------------------
(* The parts of the invariant, step by step.                               *)

(* The loop goes on to traces of other runs.                               *)
LEMMA RestOfTodo ==
  ASSUME NEW S, todo \in Seq(S), todo # <<>>, TodoInv
  PROVE  /\ \A i, j \in 1 .. Len(Tail(todo)) :
              RunIdOf[Tail(todo)[i]] = RunIdOf[Tail(todo)[j]] => i = j
         /\ \A i \in 1 .. Len(Tail(todo)) :
              /\ RunIdOf[Tail(todo)[i]] \notin existing => RunIdOf[Tail(todo)[i]] \notin Printed
              /\ RunIdOf[Tail(todo)[i]] # RunIdOf[Head(todo)]
<1> DEFINE rest == Tail(todo)
<1>1. /\ \A i \in 1 .. Len(rest) : rest[i] = todo[i + 1] /\ i + 1 \in 1 .. Len(todo)
      /\ 1 \in 1 .. Len(todo) /\ Head(todo) = todo[1]
  BY TailFacts
<1> HIDE DEF rest
<1>2. ASSUME NEW i \in 1 .. Len(rest), NEW j \in 1 .. Len(rest),
             RunIdOf[rest[i]] = RunIdOf[rest[j]]
      PROVE  i = j
  <2>1. RunIdOf[todo[i + 1]] = RunIdOf[todo[j + 1]]
    BY <1>1, <1>2
  <2>2. i + 1 = j + 1
    BY <1>1, <2>1 DEF TodoInv
  <2>3. QED
    BY <2>2
<1>3. ASSUME NEW i \in 1 .. Len(rest)
      PROVE  /\ RunIdOf[rest[i]] \notin existing => RunIdOf[rest[i]] \notin Printed
             /\ RunIdOf[rest[i]] # RunIdOf[Head(todo)]
  <2>1. rest[i] = todo[i + 1] /\ i + 1 \in 1 .. Len(todo) /\ i + 1 # 1
    BY <1>1
  <2>2. RunIdOf[todo[i + 1]] # RunIdOf[todo[1]]
    BY <1>1, <2>1 DEF TodoInv
  <2>3. QED
    BY <1>1, <2>1, <2>2 DEF TodoInv
<1>4. QED
  BY <1>2, <1>3 DEF rest

LEMMA TodoKept ==
  ASSUME IngestInv, [Next]_vars
  PROVE  TodoInv'
<1>1. IngestTypes /\ TodoInv /\ KnownInv
  BY DEF IngestInv
<1>2. CASE todo' = todo /\ existing' = existing /\ ingested' = ingested
  BY <1>1, <1>2 DEF TodoInv, Printed
<1>3. CASE todo' = <<>>
  <2>1. Len(todo') = 0
    BY <1>3, EmptySeq
  <2>2. QED
    BY <2>1 DEF TodoInv
<1>4. CASE ReadFile
  <2> DEFINE f == Head(args)
             traces == TracesOf(files[f])
  <2>1. f \in DOMAIN files /\ FilesOK(files)
    BY <1>1, <1>4, HeadTailProperties DEF ReadFile, IngestTypes
  <2>2. Lists(traces, files[f]) /\ ToSet(traces) \subseteq NamedIn(files[f])
    BY <2>1, FileFacts
  <2>3. \A t, u \in NamedIn(files[f]) : RunIdOf[t] = RunIdOf[u] => t = u
    BY <2>1 DEF FilesOK
  <2>4. todo' = traces /\ existing' = existing /\ ingested' = ingested /\ pc = "file"
    BY <1>4 DEF ReadFile
  <2>5. Printed' = Printed /\ Printed \subseteq existing
    BY <1>1, <2>4 DEF Printed, KnownInv
  <2> HIDE DEF f, traces
  <2>6. \A i \in 1 .. Len(traces) : traces[i] \in NamedIn(files[f])
    BY <2>2, ElementOfSeq DEF Lists
  <2>7. \A i, j \in 1 .. Len(traces) : RunIdOf[traces[i]] = RunIdOf[traces[j]] => i = j
    BY <2>2, <2>3, <2>6 DEF Lists
  <2>8. QED
    BY <2>4, <2>5, <2>7 DEF TodoInv
<1>5. ASSUME SkipTrace \/ RecordTrace PROVE TodoInv'
  <2> DEFINE rest == Tail(todo)
             run == RunIdOf[Head(todo)]
  <2>1. /\ todo \in Seq(DOMAIN RunIdOf) /\ todo # <<>> /\ todo' = rest
        /\ existing' = existing
    BY <1>1, <1>5 DEF IngestTypes, SkipTrace, RecordTrace
  <2>2. /\ \A i, j \in 1 .. Len(rest) : RunIdOf[rest[i]] = RunIdOf[rest[j]] => i = j
        /\ \A i \in 1 .. Len(rest) :
             /\ RunIdOf[rest[i]] \notin existing => RunIdOf[rest[i]] \notin Printed
             /\ RunIdOf[rest[i]] # run
    BY <1>1, <2>1, RestOfTodo
  <2>3. Printed' = Printed \/ Printed' = Printed \cup {run}
    <3>1. CASE SkipTrace
      BY <3>1 DEF SkipTrace, Printed
    <3>2. CASE RecordTrace
      BY <3>2, PrintedGrows
    <3>3. QED
      BY <1>5, <3>1, <3>2
  <2> HIDE DEF rest, run
  <2>4. QED
    BY <2>1, <2>2, <2>3 DEF TodoInv
<1>6. CASE \/ UNCHANGED vars \/ ListRuns \/ Close
           \/ \E n \in 1 .. Len(buffer) : Commit(n)
  BY <1>2, <1>6 DEF vars, ListRuns, Close, Commit
<1>7. CASE (\E list \in Invocation : Start(list)) \/ FileDone \/ Exit \/ Die
  BY <1>1, <1>3, <1>7 DEF IngestTypes, Start, FileDone, Exit, Die, Ready
<1>8. QED
  BY <1>4, <1>5, <1>6, <1>7 DEF Next

LEMMA KnownKept ==
  ASSUME IngestInv, [Next]_vars
  PROVE  KnownInv'
<1>1. IngestTypes /\ KnownInv /\ PrintedInv
  BY DEF IngestInv
<1>2. StoredRuns \subseteq StoredRuns'
  BY <1>1, StoredGrows
<1>3. ASSUME NEW list \in Invocation, Start(list) PROVE KnownInv'
  <2>1. /\ existing' = listed /\ listed' = StoredRuns /\ pc = "idle" /\ pc' = "file"
        /\ ingested' = {} /\ torn' = torn /\ buffer = <<>> /\ rows' = rows /\ buffer' = buffer
    BY <1>1, <1>3 DEF Start, IngestTypes
  <2>2. Printed' = {} /\ StoredRuns' = StoredRuns
    BY <2>1 DEF Printed, StoredRuns
  <2>3. rows \in Seq(EventsIn(shape, files))
    BY <1>1 DEF IngestTypes
  <2>4. Recorded' = rows
    BY <2>1, <2>3, ConcatEmptySeq DEF Recorded
  <2>5. \A i \in 1 .. Len(rows) : rows[i].run \in StoredRuns
    BY <2>3, RunsInFile
  <2>6. QED
    BY <1>1, <2>1, <2>2, <2>4, <2>5 DEF KnownInv
<1>4. CASE FileDone
  <2>1. /\ existing' = existing \cup Printed /\ Printed' = Printed /\ pc = "recording"
        /\ pc' = "file" /\ listed' = StoredRuns' /\ torn' = torn
    BY <1>4 DEF FileDone, Printed
  <2>2. Printed \subseteq StoredRuns'
    BY <1>1, <1>4, FlushStores
  <2>3. Recorded' = Recorded
    BY <1>1, <1>4, RecordedSteady DEF Steady
  <2>4. QED
    BY <1>1, <1>2, <2>1, <2>2, <2>3 DEF KnownInv
<1>5. CASE RecordTrace
  <2> DEFINE E == EventsIn(shape, files)
             run == RunIdOf[Head(todo)]
             new == EventsOf(Head(todo))
             both == Recorded \o new
  <2>1. /\ Recorded \in Seq(E) /\ new \in Seq(E) /\ Recorded' = both
        /\ \A r : r # run => OfRun(both, r) = OfRun(Recorded, r)
    BY <1>5, RecordedGrows
  <2>2. both \in Seq(E)
    BY <2>1, ConcatProperties
  <2>3. /\ Printed' = Printed \cup {run} /\ existing' = existing /\ pc = "recording"
        /\ pc' = "recording" /\ listed' = listed /\ torn' = torn
    BY <1>5, PrintedGrows DEF RecordTrace
  <2> HIDE DEF E, run, new, both
  <2>4. ASSUME NEW i \in 1 .. Len(both), both[i].run # run
        PROVE  both[i].run \in existing \cup Printed \cup torn
    <3> DEFINE r == both[i].run
    <3>1. OfRun(both, r) # <<>>
      BY <2>2, OfRunSome
    <3>2. OfRun(Recorded, r) # <<>>
      BY <2>1, <2>4, <3>1
    <3>3. \E j \in 1 .. Len(Recorded) : Recorded[j].run = r
      BY <2>1, <3>2, OfRunNone
    <3>4. QED
      BY <1>1, <2>3, <3>3 DEF KnownInv
  <2>5. QED
    BY <1>1, <1>2, <2>1, <2>3, <2>4 DEF KnownInv
<1>6. CASE Exit \/ Die
  <2>1. /\ pc' = "idle" /\ existing' = {} /\ listed' = listed /\ rows' = rows
        /\ StoredRuns \subseteq listed' \cup torn'
    BY <1>1, <1>6 DEF Exit, Die, Ready, KnownInv
  <2>2. StoredRuns' = StoredRuns
    BY <2>1 DEF StoredRuns
  <2>3. QED
    BY <1>1, <2>1, <2>2 DEF KnownInv
<1>7. CASE ListRuns
  <2>1. /\ listed' = StoredRuns /\ existing' = existing /\ ingested' = ingested
        /\ pc = "recording" /\ pc' = "recording" /\ torn' = torn
    BY <1>7 DEF ListRuns
  <2>2. Recorded' = Recorded /\ Printed' = Printed
    BY <1>1, <1>7, <2>1, RecordedSteady DEF Steady, Printed
  <2>3. QED
    BY <1>1, <1>2, <2>1, <2>2 DEF KnownInv
<1>8. CASE \/ UNCHANGED vars \/ ReadFile \/ SkipTrace \/ Close
           \/ \E n \in 1 .. Len(buffer) : Commit(n)
  <2>1. Recorded' = Recorded
    BY <1>1, <1>8, RecordedSteady DEF Steady
  <2>2. /\ existing' = existing /\ ingested' = ingested /\ listed' = listed /\ torn' = torn
        /\ pc' \in {"file", "closed"} => pc \in {"file", "closed"} /\ rows' = rows
        /\ pc' = "idle" => pc = "idle" /\ rows' = rows
        /\ pc' # "idle" => pc # "idle"
    BY <1>8 DEF vars, ReadFile, SkipTrace, Close, Commit
  <2>3. Printed' = Printed /\ (rows' = rows => StoredRuns' = StoredRuns)
    BY <2>2 DEF Printed, StoredRuns
  <2>4. QED
    BY <1>1, <1>2, <2>1, <2>2, <2>3 DEF KnownInv
<1>9. QED
  BY <1>3, <1>4, <1>5, <1>6, <1>7, <1>8 DEF Next

LEMMA SequencePrefix ==
  ASSUME NEW S, NEW s \in Seq(S), NEW t \in Seq(S), NEW r, InSequence(OfRun(s \o t, r))
  PROVE  InSequence(OfRun(s, r))
<1> DEFINE a == OfRun(s, r)
           b == OfRun(t, r)
           both == a \o b
<1>1. OfRun(s \o t, r) = both
  BY OfRunConcat
<1>2. a \in Seq(S) /\ b \in Seq(S)
  BY OfRunType
<1> HIDE DEF a, b
<1>3. /\ Len(both) = Len(a) + Len(b) /\ Len(a) \in Nat /\ Len(b) \in Nat
      /\ \A i \in 1 .. Len(a) + Len(b) :
           both[i] = IF i <= Len(a) THEN a[i] ELSE b[i - Len(a)]
  BY <1>2, ConcatProperties, LenProperties
<1>4. InSequence(both)
  BY <1>1
<1> HIDE DEF both
<1>5. \A i \in 1 .. Len(a) : i \in 1 .. Len(both) /\ both[i] = a[i]
  BY <1>3
<1>6. InSequence(a)
  BY <1>4, <1>5 DEF InSequence
<1>7. QED
  BY <1>6 DEF a

LEMMA NumbersKept ==
  ASSUME IngestInv, [Next]_vars
  PROVE  NumbersInv'
<1>1. IngestTypes /\ NumbersInv
  BY DEF IngestInv
<1>2. torn \subseteq torn'
  BY DEF Next, Start, ReadFile, SkipTrace, RecordTrace, Commit, ListRuns, FileDone, Close,
         Exit, Die, vars
<1>3. CASE Steady
  BY <1>1, <1>2, <1>3, RecordedSteady DEF NumbersInv
<1>4. CASE RecordTrace
  BY <1>1, <1>2, <1>4, RecordedGrows DEF NumbersInv
<1>5. CASE Exit \/ Die
  <2>1. Recorded' = rows
    BY <1>1, <1>5, RecordedEnds
  <2>2. rows \in Seq(EventsIn(shape, files)) /\ buffer \in Seq(EventsIn(shape, files))
    BY <1>1 DEF IngestTypes
  <2>3. \A r : r \notin torn => InSequence(OfRun(rows \o buffer, r))
    BY <1>1 DEF NumbersInv, Recorded
  <2>4. \A r : r \notin torn => InSequence(OfRun(rows, r))
    BY <2>2, <2>3, SequencePrefix
  <2>5. QED
    BY <1>2, <2>1, <2>4 DEF NumbersInv
<1>6. QED
  BY <1>3, <1>4, <1>5, NextSteps

LEMMA ConcatEnds ==
  ASSUME NEW S, NEW s \in Seq(S), NEW e \in Seq(S)
  PROVE  EndsWith(s \o e, e)
<1> DEFINE both == s \o e
           k == Len(both) - Len(e)
<1>1. /\ both \in Seq(S) /\ Len(both) = Len(s) + Len(e)
      /\ Len(s) \in Nat /\ Len(e) \in Nat
      /\ \A i \in 1 .. Len(s) + Len(e) :
           both[i] = IF i <= Len(s) THEN s[i] ELSE e[i - Len(s)]
  BY ConcatProperties, LenProperties
<1> HIDE DEF both
<1>2. k = Len(s) /\ k \in 0 .. Len(both) /\ Len(e) <= Len(both)
  BY <1>1
<1> HIDE DEF k
<1>3. /\ Left(both, k) \in Seq(S) /\ Len(Left(both, k)) = Len(both) - k
      /\ \A i \in 1 .. Len(both) - k : Left(both, k)[i] = both[k + i]
  BY <1>1, <1>2, Split
<1>4. Len(Left(both, k)) = Len(e)
  BY <1>1, <1>2, <1>3
<1>5. ASSUME NEW i \in 1 .. Len(Left(both, k)) PROVE Left(both, k)[i] = e[i]
  <2>1. Left(both, k)[i] = both[k + i]
    BY <1>3
  <2>2. k + i \in 1 .. Len(s) + Len(e) /\ ~ (k + i <= Len(s)) /\ (k + i) - Len(s) = i
    BY <1>1, <1>2, <1>4
  <2>3. QED
    BY <1>1, <2>1, <2>2
<1>6. Left(both, k) = e
  BY <1>3, <1>4, <1>5, SeqEqual
<1>7. QED
  BY <1>2, <1>6 DEF EndsWith, both, k

LEMMA PrintedKept ==
  ASSUME IngestInv, [Next]_vars
  PROVE  PrintedInv'
<1>1. IngestTypes /\ PrintedInv
  BY DEF IngestInv
<1>2. EventsIn(shape, files)' = EventsIn(shape, files)
  BY DEF Next, Start, ReadFile, SkipTrace, RecordTrace, Commit, ListRuns, FileDone, Close,
         Exit, Die, vars
<1>3. CASE Steady
  <2>1. Recorded' = Recorded
    BY <1>1, <1>3, RecordedSteady
  <2>2. ingested' = ingested /\ torn' = torn
    BY <1>3 DEF Steady, vars, ReadFile, SkipTrace, ListRuns, FileDone, Close, Start, Commit
  <2>3. QED
    BY <1>1, <1>2, <2>1, <2>2 DEF PrintedInv
<1>4. CASE RecordTrace
  <2> DEFINE E == EventsIn(shape, files)
             run == RunIdOf[Head(todo)]
             new == EventsOf(Head(todo))
             old == OfRun(Recorded, run)
             summary == [run |-> run, count |-> Len(new), events |-> new]
  <2>1. /\ OfRun(Recorded', run) = old \o new /\ run \notin Printed
        /\ run \notin torn => OfRun(Recorded', run) = new
        /\ \A r : r # run => OfRun(Recorded', r) = OfRun(Recorded, r)
        /\ new \in Seq(E) /\ Recorded \in Seq(E)
    BY <1>4, RecordedGrows
  <2>2. ingested' = ingested \cup {summary} /\ new # <<>> /\ torn' = torn
    BY <1>4 DEF RecordTrace
  <2>3. summary.run = run /\ summary.count = Len(new) /\ summary.events = new
    OBVIOUS
  <2>4. old \in Seq(E)
    BY <2>1, OfRunType
  <2>5. E' = E
    BY <1>2
  <2>6. \A x \in ingested : x.run \in Printed /\ x.events \in Seq(E)
    BY <1>1 DEF PrintedInv, Printed
  <2> HIDE DEF E, run, new, old, summary
  <2>7. EndsWith(old \o new, new)
    BY <2>1, <2>4, ConcatEnds
  <2>8. ASSUME NEW x \in ingested
        PROVE  /\ x.events \in Seq(E) /\ x.events # <<>> /\ x.count = Len(x.events)
               /\ EndsWith(OfRun(Recorded', x.run), x.events)
               /\ x.run \notin torn' => OfRun(Recorded', x.run) = x.events
    <3>1. x.run # run
      BY <2>1, <2>6
    <3>2. OfRun(Recorded', x.run) = OfRun(Recorded, x.run)
      BY <2>1, <3>1
    <3>3. QED
      BY <1>1, <2>2, <2>6, <3>2 DEF PrintedInv
  <2>9. /\ summary.events \in Seq(E) /\ summary.events # <<>>
        /\ summary.count = Len(summary.events)
        /\ EndsWith(OfRun(Recorded', summary.run), summary.events)
        /\ summary.run \notin torn' => OfRun(Recorded', summary.run) = summary.events
    BY <2>1, <2>2, <2>3, <2>7
  <2>10. \A x \in ingested' :
           /\ x.events \in Seq(E') /\ x.events # <<>> /\ x.count = Len(x.events)
           /\ EndsWith(OfRun(Recorded', x.run), x.events)
           /\ x.run \notin torn' => OfRun(Recorded', x.run) = x.events
    BY <2>2, <2>5, <2>8, <2>9
  <2>11. QED
    BY <2>10 DEF PrintedInv, E
<1>5. CASE Exit \/ Die
  BY <1>5 DEF Exit, Die, Ready, PrintedInv
<1>6. QED
  BY <1>3, <1>4, <1>5, NextSteps

(* Whatever a file named is still looked after: Covered is CoveredInv for  *)
(* one trace of one file.                                                  *)
Covered(f, t) ==
  TraceEvents(shape, files[f], t) # <<>> =>
    \/ RunIdOf[t] \in existing \cup Printed
    \/ pc = "recording" /\ f = Head(args) /\ t \in ToSet(todo)

LEMMA CoveredKept ==
  ASSUME IngestInv, [Next]_vars
  PROVE  CoveredInv'
<1>1. IngestTypes /\ KnownInv /\ CoveredInv
  BY DEF IngestInv
<1>2. shape' = shape /\ files' = files
  BY DEF Next, Start, ReadFile, SkipTrace, RecordTrace, Commit, ListRuns, FileDone, Close,
         Exit, Die, vars
<1>3. \A f \in asked : \A t \in ToSet(TracesOf(files[f])) : Covered(f, t)
  BY <1>1 DEF CoveredInv, Covered
<1>4. ASSUME NEW f \in asked', NEW t \in ToSet(TracesOf(files[f])), Covered(f, t)'
      PROVE  TraceEvents(shape', files'[f], t) # <<>> =>
               \/ RunIdOf[t] \in existing' \cup Printed'
               \/ pc' = "recording" /\ f = Head(args') /\ t \in ToSet(todo')
  BY <1>4 DEF Covered
<1>5. ASSUME \A f \in asked' : \A t \in ToSet(TracesOf(files[f])) : Covered(f, t)'
      PROVE  CoveredInv'
  BY <1>2, <1>4, <1>5 DEF CoveredInv
<1>6. CASE asked' = {}
  BY <1>6 DEF CoveredInv
<1>7. CASE ReadFile
  <2>1. /\ pc = "file" /\ pc' = "recording" /\ todo' = TracesOf(files[Head(args)])
        /\ args' = args /\ existing' = existing /\ asked' = asked \cup {Head(args)}
        /\ Printed' = Printed
    BY <1>7 DEF ReadFile, Printed
  <2>2. ASSUME NEW f \in asked', NEW t \in ToSet(TracesOf(files[f])) PROVE Covered(f, t)'
    <3>1. CASE f = Head(args)
      BY <2>1, <3>1 DEF Covered
    <3>2. CASE f \in asked
      <4>1. Covered(f, t)
        BY <1>3, <3>2
      <4>2. QED
        BY <1>2, <2>1, <4>1 DEF Covered
    <3>3. QED
      BY <2>1, <3>1, <3>2
  <2>3. QED
    BY <1>5, <2>2
<1>8. CASE SkipTrace \/ RecordTrace
  <2> DEFINE head == Head(todo)
             rest == Tail(todo)
  <2>1. /\ pc = "recording" /\ pc' = "recording" /\ todo' = rest /\ args' = args
        /\ existing' = existing /\ asked' = asked
        /\ todo \in Seq(DOMAIN RunIdOf) /\ todo # <<>>
    BY <1>1, <1>8 DEF SkipTrace, RecordTrace, IngestTypes
  <2>2. ToSet(todo) = {head} \cup ToSet(rest)
    BY <2>1, TailFacts
  <2>3. /\ Printed \subseteq Printed'
        /\ TraceEvents(shape, files[Head(args)], head) = <<>>
             \/ RunIdOf[head] \in existing \cup Printed'
    <3>1. CASE SkipTrace
      BY <3>1 DEF SkipTrace, Printed, EventsOf
    <3>2. CASE RecordTrace
      BY <3>2, PrintedGrows
    <3>3. QED
      BY <1>8, <3>1, <3>2
  <2> HIDE DEF head, rest
  <2>4. ASSUME NEW f \in asked', NEW t \in ToSet(TracesOf(files[f])) PROVE Covered(f, t)'
    <3>1. Covered(f, t)
      BY <1>3, <2>1
    <3>2. CASE t \in ToSet(rest)
      BY <1>2, <2>1, <2>3, <3>1, <3>2 DEF Covered
    <3>3. CASE t \notin ToSet(rest)
      <4>1. t \in ToSet(todo) => t = head
        BY <2>2, <3>3
      <4>2. QED
        BY <1>2, <2>1, <2>3, <3>1, <4>1 DEF Covered
    <3>4. QED
      BY <3>2, <3>3
  <2>5. QED
    BY <1>5, <2>4
<1>9. CASE FileDone
  <2>1. /\ existing \subseteq existing' /\ asked' = asked /\ todo = <<>>
        /\ Printed' = Printed
    BY <1>9 DEF FileDone, Printed
  <2>2. ToSet(todo) = {}
    BY <2>1 DEF ToSet
  <2>3. ASSUME NEW f \in asked', NEW t \in ToSet(TracesOf(files[f])) PROVE Covered(f, t)'
    <3>1. Covered(f, t)
      BY <1>3, <2>1
    <3>2. QED
      BY <1>2, <2>1, <2>2, <3>1 DEF Covered
  <2>4. QED
    BY <1>5, <2>3
<1>10. CASE \/ UNCHANGED vars \/ ListRuns \/ Close
            \/ \E n \in 1 .. Len(buffer) : Commit(n)
  <2>1. /\ existing' = existing /\ asked' = asked /\ todo' = todo /\ args' = args
        /\ ingested' = ingested
        /\ pc' = pc \/ pc = "file"
    BY <1>10 DEF vars, ListRuns, Close, Commit
  <2>2. Printed' = Printed
    BY <2>1 DEF Printed
  <2>3. ASSUME NEW f \in asked', NEW t \in ToSet(TracesOf(files[f])) PROVE Covered(f, t)'
    <3>1. Covered(f, t)
      BY <1>3, <2>1
    <3>2. QED
      BY <1>2, <2>1, <2>2, <3>1 DEF Covered
  <2>4. QED
    BY <1>5, <2>3
<1>11. CASE (\E list \in Invocation : Start(list)) \/ Exit \/ Die
  BY <1>1, <1>6, <1>11 DEF IngestTypes, Start, Exit, Die, Ready
<1>12. QED
  BY <1>7, <1>8, <1>9, <1>10, <1>11 DEF Next

(* The invariant holds throughout.                                         *)
LEMMA IngestInvHolds == Spec => []IngestInv
<1>1. Init => IngestInv
  BY InitIngest
<1>2. IngestInv /\ [Next]_vars => IngestInv'
  <2> SUFFICES ASSUME IngestInv, [Next]_vars PROVE IngestInv'
    OBVIOUS
  <2>1. IngestTypes'
    BY TypesKept DEF IngestInv
  <2>2. QED
    BY <2>1, TodoKept, KnownKept, NumbersKept, PrintedKept, CoveredKept DEF IngestInv
<1>3. QED
  BY <1>1, <1>2, PTL DEF Spec

-----------------------------------------------------------------------------
(* Spans in the order of their start.                                      *)

StartsOK(X) == X \subseteq Span /\ IsFiniteSet(X)

LEMMA StartOrder ==
  /\ \A s \in Span : ~ StartsBefore(s, s)
  /\ \A s, t, u \in Span : StartsBefore(s, t) /\ StartsBefore(t, u) => StartsBefore(s, u)
  /\ \A s, t \in Span : s # t => StartsBefore(s, t) \/ StartsBefore(t, s)
<1>1. \A s \in Span : s \in Nat /\ StartOf[s] \in Nat
  BY IngestAssumption
<1>2. QED
  BY <1>1 DEF StartsBefore

LEMMA StartRanks ==
  ASSUME NEW X, StartsOK(X), NEW rank, rank = [s \in X |-> Cardinality({t \in X : StartsBefore(t, s)}) + 1]
  PROVE  /\ Cardinality(X) \in Nat
         /\ rank \in Bijection(X, 1 .. Cardinality(X))
<1> DEFINE N == Cardinality(X)
           Earlier(s) == {t \in X : StartsBefore(t, s)}
<1>1. N \in Nat /\ IsFiniteSet(X) /\ \A s \in X : s \in Span
  BY FS_CardinalityType DEF StartsOK
<1>2. ASSUME NEW s \in X
      PROVE  /\ IsFiniteSet(Earlier(s)) /\ Cardinality(Earlier(s)) \in Nat
             /\ Cardinality(Earlier(s)) <= N - 1
  <2>1. Earlier(s) \in SUBSET (X \ {s})
    BY <1>1, StartOrder
  <2> HIDE DEF Earlier
  <2>2. IsFiniteSet(X \ {s}) /\ Cardinality(X \ {s}) = N - 1
    BY <1>1, FS_RemoveElement
  <2>3. QED
    BY <2>1, <2>2, FS_Subset, FS_CardinalityType
<1>3. ASSUME NEW s \in X, NEW u \in X, StartsBefore(s, u)
      PROVE  Cardinality(Earlier(s)) < Cardinality(Earlier(u))
  <2>1. s \in Earlier(u) /\ Earlier(s) \subseteq Earlier(u) \ {s}
    BY <1>1, <1>3, StartOrder
  <2>2. /\ IsFiniteSet(Earlier(s)) /\ IsFiniteSet(Earlier(u))
        /\ Cardinality(Earlier(s)) \in Nat /\ Cardinality(Earlier(u)) \in Nat
    BY <1>2
  <2> HIDE DEF Earlier
  <2>3. /\ IsFiniteSet(Earlier(u) \ {s})
        /\ Cardinality(Earlier(u) \ {s}) = Cardinality(Earlier(u)) - 1
    BY <2>1, <2>2, FS_RemoveElement
  <2>4. Cardinality(Earlier(s)) <= Cardinality(Earlier(u) \ {s})
    BY <2>1, <2>3, FS_Subset
  <2>5. QED
    BY <2>2, <2>3, <2>4
<1>4. rank = [s \in X |-> Cardinality(Earlier(s)) + 1]
  OBVIOUS
<1> HIDE DEF Earlier
<1>5. rank \in [X -> 1 .. N]
  <2>1. \A s \in X : Cardinality(Earlier(s)) + 1 \in 1 .. N
    BY <1>1, <1>2
  <2>2. QED
    BY <1>4, <2>1
<1>6. ASSUME NEW s \in X, NEW u \in X, s # u PROVE rank[s] # rank[u]
  <2>1. StartsBefore(s, u) \/ StartsBefore(u, s)
    BY <1>1, <1>6, StartOrder
  <2>2. /\ Cardinality(Earlier(s)) \in Nat /\ Cardinality(Earlier(u)) \in Nat
        /\ \/ Cardinality(Earlier(s)) < Cardinality(Earlier(u))
           \/ Cardinality(Earlier(u)) < Cardinality(Earlier(s))
    BY <1>2, <1>3, <2>1
  <2>3. QED
    BY <1>4, <2>2
<1>7. rank \in Injection(X, 1 .. N)
  BY <1>5, <1>6 DEF Injection, IsInjective
<1>8. IsFiniteSet(1 .. N) /\ Cardinality(1 .. N) = N
  <2>1. 1 \in Int /\ N \in Int
    BY <1>1
  <2>2. IsFiniteSet(1 .. N) /\ Cardinality(1 .. N) = IF 1 > N THEN 0 ELSE N - 1 + 1
    BY <2>1, FS_Interval
  <2>3. QED
    BY <1>1, <2>2
<1>9. rank \in Surjection(X, 1 .. N)
  <2>1. PICK Y : Y = 1 .. N
    OBVIOUS
  <2>2. rank \in Injection(X, Y) /\ IsFiniteSet(Y) /\ Cardinality(X) = Cardinality(Y)
    BY <1>7, <1>8, <2>1
  <2>3. rank \in Surjection(X, Y)
    BY <1>1, <2>2, FS_Injection
  <2>4. QED
    BY <2>1, <2>3
<1>10. QED
  BY <1>1, <1>7, <1>9 DEF Bijection

(* Each of them once.                                                      *)
LEMMA ByStartLists ==
  ASSUME NEW X, StartsOK(X), NEW q, q = ByStart(X)
  PROVE  /\ q \in Seq(X) /\ IsInjective(q) /\ \A x \in X : \E k \in DOMAIN q : q[k] = x
<1> DEFINE N == Cardinality(X)
           Earlier(s) == {t \in X : StartsBefore(t, s)}
           At(k) == CHOOSE s \in X : Cardinality(Earlier(s)) = k - 1
<1>1. PICK rank : rank = [s \in X |-> Cardinality(Earlier(s)) + 1]
  OBVIOUS
<1>2. N \in Nat /\ rank \in Bijection(X, 1 .. N)
  BY <1>1, StartRanks
<1>3. /\ rank \in [X -> 1 .. N] /\ \A s, u \in X : rank[s] = rank[u] => s = u
      /\ \A k \in 1 .. N : \E s \in X : rank[s] = k
  BY <1>2 DEF Bijection, Injection, Surjection, IsInjective
<1>4. \A s \in X : Cardinality(Earlier(s)) \in Nat /\ rank[s] = Cardinality(Earlier(s)) + 1
  <2> SUFFICES ASSUME NEW s \in X PROVE Cardinality(Earlier(s)) \in Nat
    BY <1>1
  <2>1. IsFiniteSet(Earlier(s))
    BY FS_Subset DEF StartsOK
  <2> HIDE DEF Earlier
  <2>2. QED
    BY <2>1, FS_CardinalityType
<1>5. q = [k \in 1 .. N |-> At(k)]
  BY DEF ByStart
<1> HIDE DEF Earlier
<1>6. ASSUME NEW k \in 1 .. N PROVE At(k) \in X /\ rank[At(k)] = k
  <2>1. \E s \in X : Cardinality(Earlier(s)) = k - 1
    BY <1>3, <1>4
  <2>2. At(k) \in X /\ Cardinality(Earlier(At(k))) = k - 1
    BY <2>1
  <2> HIDE DEF At
  <2>3. QED
    BY <1>4, <2>2
<1> HIDE DEF At
<1>7. /\ DOMAIN q = 1 .. N /\ q \in [1 .. N -> X] /\ \A k \in 1 .. N : rank[q[k]] = k
  BY <1>5, <1>6
<1>8. q \in Seq(X)
  BY <1>2, <1>7
<1>9. IsInjective(q)
  BY <1>7 DEF IsInjective
<1>10. ASSUME NEW x \in X PROVE \E k \in DOMAIN q : q[k] = x
  <2>1. rank[x] \in 1 .. N /\ rank[q[rank[x]]] = rank[x] /\ q[rank[x]] \in X
    BY <1>3, <1>7
  <2>2. QED
    BY <1>3, <1>7, <2>1
<1>11. QED
  BY <1>8, <1>9, <1>10

-----------------------------------------------------------------------------
(* The forest over the spans of a trace, as sets.                          *)

IsTrace(S) == S \subseteq Span /\ IsFiniteSet(S)

Tops(tree, S) == {s \in S : ParentIn(tree, S, s) \in {NoSpan, s}}
Kids(tree, S, p) == {c \in S \ {p} : ParentIn(tree, S, c) = p}
Emits(tree, s) == StepOf(tree, s) # "none"

LEMMA ForestLists ==
  ASSUME NEW tree, NEW S, IsTrace(S)
  PROVE  /\ StartsOK(Tops(tree, S)) /\ Roots(tree, S) = ByStart(Tops(tree, S))
         /\ ToSet(Roots(tree, S)) = Tops(tree, S)
         /\ \A p : /\ StartsOK(Kids(tree, S, p))
                   /\ Children(tree, S, p) = ByStart(Kids(tree, S, p))
                   /\ ToSet(Children(tree, S, p)) = Kids(tree, S, p)
<1>1. ASSUME NEW X, X \subseteq S PROVE StartsOK(X) /\ ToSet(ByStart(X)) = X
  <2>1. StartsOK(X)
    BY <1>1, FS_Subset DEF IsTrace, StartsOK
  <2>2. PICK q : q = ByStart(X)
    OBVIOUS
  <2>3. q \in Seq(X) /\ \A x \in X : \E k \in DOMAIN q : q[k] = x
    BY <2>1, <2>2, ByStartLists
  <2>4. \A k \in DOMAIN q : q[k] \in X
    BY <2>3
  <2>5. ToSet(q) = X
    BY <2>3, <2>4 DEF ToSet
  <2>6. QED
    BY <2>1, <2>2, <2>5
<1>2. Tops(tree, S) \subseteq S /\ \A p : Kids(tree, S, p) \subseteq S
  BY DEF Tops, Kids
<1>3. Roots(tree, S) = ByStart(Tops(tree, S))
  BY DEF Roots, Tops
<1>4. \A p : Children(tree, S, p) = ByStart(Kids(tree, S, p))
  BY DEF Children, Kids
<1>5. QED
  BY <1>1, <1>2, <1>3, <1>4

(* A span has one parent, and a root has none.                             *)
LEMMA OneParent ==
  ASSUME NEW tree, NEW S, IsTrace(S), NEW p \in S, NEW c \in Kids(tree, S, p)
  PROVE  /\ c \in S /\ c # p /\ c \notin Tops(tree, S)
         /\ \A q \in S : c \in Kids(tree, S, q) => q = p
<1>1. p # NoSpan
  BY IngestAssumption DEF IsTrace
<1>2. QED
  BY <1>1 DEF Kids, Tops

LEMMA ReachableIs ==
  ASSUME NEW tree, NEW S, IsTrace(S)
  PROVE  /\ Tops(tree, S) \subseteq Reachable(tree, S) /\ Reachable(tree, S) \subseteq S
         /\ \A p \in Reachable(tree, S) : Kids(tree, S, p) \subseteq Reachable(tree, S)
         /\ \A X \in SUBSET S : /\ Tops(tree, S) \subseteq X
                                /\ \A p \in X : Kids(tree, S, p) \subseteq X
                                => Reachable(tree, S) \subseteq X
<1>1. Reachable(tree, S) =
        {s \in S : \A X \in SUBSET S :
           /\ Tops(tree, S) \subseteq X
           /\ \A p \in X : Kids(tree, S, p) \subseteq X
           => s \in X}
  BY ForestLists DEF Reachable
<1>2. Tops(tree, S) \subseteq S /\ \A p : Kids(tree, S, p) \subseteq S
  BY DEF Tops, Kids
<1>3. QED
  BY <1>1, <1>2

(* Who is next below u is a child of u, or of one next below u that is     *)
(* left out.                                                               *)
LEMMA NextBelowIs ==
  ASSUME NEW tree, NEW S, IsTrace(S), NEW u \in S
  PROVE  /\ \A s \in NextBelow(tree, S, u) : s \notin Tops(tree, S)
         /\ \A p \in S : \A c \in Kids(tree, S, p) :
              c \in NextBelow(tree, S, u) =>
                p = u \/ (~ Emits(tree, p) /\ p \in NextBelow(tree, S, u))
<1> DEFINE B == NextBelow(tree, S, u)
           Held(X) == /\ Kids(tree, S, u) \subseteq X
                      /\ \A p \in X : ~ Emits(tree, p) => Kids(tree, S, p) \subseteq X
<1>1. B = {s \in S : \A X \in SUBSET S : Held(X) => s \in X}
  <2>1. \A p : ToSet(Children(tree, S, p)) = Kids(tree, S, p)
    BY ForestLists
  <2>2. \A p : ~ Emits(tree, p) <=> StepOf(tree, p) = "none"
    BY DEF Emits
  <2>3. B = {s \in S : \A X \in SUBSET S :
               /\ ToSet(Children(tree, S, u)) \subseteq X
               /\ \A p \in X : StepOf(tree, p) = "none" => ToSet(Children(tree, S, p)) \subseteq X
               => s \in X}
    BY DEF NextBelow
  <2> HIDE DEF B
  <2>4. QED
    BY <2>1, <2>2, <2>3
<1>2. Tops(tree, S) \subseteq S /\ \A p : Kids(tree, S, p) \subseteq S
  BY DEF Tops, Kids
<1>3. B \in SUBSET S /\ Held(B)
  BY <1>1, <1>2
<1>4. ASSUME NEW c \in S, \A p \in S : c \in Kids(tree, S, p) => p # u /\ (Emits(tree, p) \/ p \notin B)
      PROVE  c \notin B
  <2>1. B \ {c} \in SUBSET S
    BY <1>3
  <2>2. Held(B \ {c})
    BY <1>2, <1>3, <1>4
  <2>3. QED
    BY <1>1, <2>1, <2>2
<1>5. ASSUME NEW s \in Tops(tree, S) PROVE s \notin B
  <2>1. \A p \in S : s \notin Kids(tree, S, p)
    BY <1>5, OneParent
  <2>2. QED
    BY <1>2, <1>4, <1>5, <2>1
<1> HIDE DEF B
<1>6. ASSUME NEW p \in S, NEW c \in Kids(tree, S, p), c \in B
      PROVE  p = u \/ (~ Emits(tree, p) /\ p \in B)
  <2>1. c \in S /\ \A q \in S : c \in Kids(tree, S, q) => q = p
    BY <1>6, OneParent
  <2>2. PICK q \in S : c \in Kids(tree, S, q) /\ ~ (q # u /\ (Emits(tree, q) \/ q \notin B))
    BY <1>4, <1>6, <2>1
  <2>3. q = p
    BY <2>1, <2>2
  <2>4. QED
    BY <2>2, <2>3
<1>7. QED
  BY <1>3, <1>5, <1>6 DEF B

-----------------------------------------------------------------------------
(* The entries a turn pushes.                                              *)

Entries(S) == [span : S, closing : BOOLEAN]

Opening(s) == Entry(s, FALSE)
Closing(s) == Entry(s, TRUE)

LEMMA EntryFacts ==
  ASSUME NEW S, NEW s \in S
  PROVE  /\ Opening(s) \in Entries(S) /\ Closing(s) \in Entries(S)
         /\ Opening(s).span = s /\ ~ Opening(s).closing
         /\ Closing(s).span = s /\ Closing(s).closing
BY DEF Opening, Closing, Entry, Entries

LEMMA OpeningDiffers ==
  ASSUME NEW s, NEW u
  PROVE  Opening(s) # Closing(u) /\ (Opening(s) = Opening(u) => s = u)
BY DEF Opening, Closing, Entry

LEMMA ClosingDiffers ==
  ASSUME NEW s, NEW u
  PROVE  Closing(s) = Closing(u) => s = u
BY DEF Closing, Entry

LEMMA EntryIs ==
  ASSUME NEW S, NEW e \in Entries(S)
  PROVE  /\ e.span \in S
         /\ e.closing => e = Closing(e.span)
         /\ ~ e.closing => e = Opening(e.span)
BY DEF Entry, Entries, Opening, Closing

(* Where an entry lies on a stack.                                         *)
Opens(stack, s, k) == k \in DOMAIN stack /\ stack[k] = Opening(s)
Closes(stack, s, k) == k \in DOMAIN stack /\ stack[k] = Closing(s)

LEMMA VisitsList ==
  ASSUME NEW X, StartsOK(X), NEW q, q = Visits(ByStart(X))
  PROVE  /\ q \in Seq(Entries(X)) /\ IsInjective(q)
         /\ \A k \in DOMAIN q : \E x \in X : q[k] = Opening(x)
         /\ \A x \in X : \E k \in DOMAIN q : q[k] = Opening(x)
<1>1. PICK b : b = ByStart(X)
  OBVIOUS
<1>2. b \in Seq(X) /\ IsInjective(b) /\ \A x \in X : \E k \in DOMAIN b : b[k] = x
  BY <1>1, ByStartLists
<1> DEFINE N == Len(b)
<1>3. N \in Nat /\ DOMAIN b = 1 .. N /\ \A k \in 1 .. N : b[k] \in X
  BY <1>2
<1>4. Reverse(b) = [k \in 1 .. N |-> b[N - k + 1]]
  BY DEF Reverse
<1>5. q = [k \in DOMAIN b |-> Opening(Reverse(b)[k])]
  BY <1>1 DEF Visits, Opening
<1> HIDE DEF N
<1>6. \A k \in 1 .. N : N - k + 1 \in 1 .. N /\ N - (N - k + 1) + 1 = k
  BY <1>3
<1>7. DOMAIN q = 1 .. N /\ \A k \in 1 .. N : q[k] = Opening(b[N - k + 1])
  BY <1>3, <1>4, <1>5
<1>8. \A k \in 1 .. N : b[N - k + 1] \in X
  BY <1>3, <1>6
<1>9. q \in Seq(Entries(X))
  <2>1. \A k \in 1 .. N : q[k] \in Entries(X)
    <3> SUFFICES ASSUME NEW k \in 1 .. N PROVE q[k] \in Entries(X)
      OBVIOUS
    <3>1. q[k] = Opening(b[N - k + 1]) /\ b[N - k + 1] \in X
      BY <1>7, <1>8
    <3>2. QED
      BY <3>1, EntryFacts
  <2>2. q = [k \in 1 .. N |-> q[k]]
    BY <1>3, <1>5, <1>7
  <2>3. QED
    BY <1>3, <2>1, <2>2
<1>10. IsInjective(q)
  <2> SUFFICES ASSUME NEW j \in 1 .. N, NEW k \in 1 .. N, q[j] = q[k] PROVE j = k
    BY <1>7 DEF IsInjective
  <2>1. b[N - j + 1] = b[N - k + 1]
    <3>1. Opening(b[N - j + 1]) = Opening(b[N - k + 1])
      BY <1>7
    <3>2. QED
      BY <3>1, OpeningDiffers
  <2>2. N - j + 1 = N - k + 1
    BY <1>2, <1>3, <1>6, <2>1 DEF IsInjective
  <2>3. QED
    BY <1>3, <2>2
<1>11. ASSUME NEW x \in X PROVE \E k \in DOMAIN q : q[k] = Opening(x)
  <2>1. PICK k \in 1 .. N : b[k] = x
    BY <1>2, <1>3
  <2>2. N - k + 1 \in 1 .. N /\ q[N - k + 1] = Opening(b[k])
    BY <1>6, <1>7
  <2>3. QED
    BY <1>7, <2>1, <2>2
<1>12. QED
  BY <1>7, <1>8, <1>9, <1>10, <1>11

LEMMA PushedList ==
  ASSUME NEW tree, NEW S, IsTrace(S), NEW s \in S, NEW q, q = Pushed(tree, S, s)
  PROVE  /\ q \in Seq(Entries(S))
         /\ \A u, k : Closes(q, u, k) <=> u = s /\ Emits(tree, s) /\ k = 1
         /\ \A c, k : Opens(q, c, k) =>
              /\ c \in Kids(tree, S, s) /\ 1 <= k /\ (Emits(tree, s) => 1 < k)
              /\ \A j : Opens(q, c, j) => j = k
         /\ \A c \in Kids(tree, S, s) : \E k : Opens(q, c, k)
<1>1. PICK K : K = Kids(tree, S, s)
  OBVIOUS
<1>2. PICK v : v = Visits(ByStart(K))
  OBVIOUS
<1>3. StartsOK(K) /\ Children(tree, S, s) = ByStart(K)
  BY <1>1, ForestLists
<1>4. K \subseteq S
  BY <1>1 DEF Kids
<1>5. /\ v \in Seq(Entries(K)) /\ IsInjective(v)
      /\ \A k \in DOMAIN v : \E c \in K : v[k] = Opening(c)
      /\ \A c \in K : \E k \in DOMAIN v : v[k] = Opening(c)
  BY <1>2, <1>3, VisitsList
<1>6. PICK n : n = Len(v)
  OBVIOUS
<1>7. Entries(K) \subseteq Entries(S)
  BY <1>4 DEF Entries
<1>8. v \in Seq(Entries(S)) /\ n \in Nat /\ DOMAIN v = 1 .. n
  BY <1>5, <1>6, <1>7
<1>9. /\ \A u, k : ~ Closes(v, u, k)
      /\ \A c, k : Opens(v, c, k) =>
           /\ c \in K /\ k \in 1 .. n /\ \A j : Opens(v, c, j) => j = k
      /\ \A c \in K : \E k : Opens(v, c, k)
  <2>1. ASSUME NEW u, NEW k, Closes(v, u, k) PROVE FALSE
    <3>1. k \in DOMAIN v /\ v[k] = Closing(u)
      BY <2>1 DEF Closes
    <3>2. PICK c \in K : v[k] = Opening(c)
      BY <1>5, <3>1
    <3>3. QED
      BY <3>1, <3>2, OpeningDiffers
  <2>2. ASSUME NEW c, NEW k, Opens(v, c, k)
        PROVE  c \in K /\ k \in 1 .. n /\ \A j : Opens(v, c, j) => j = k
    <3>1. k \in DOMAIN v /\ v[k] = Opening(c)
      BY <2>2 DEF Opens
    <3>2. PICK d \in K : v[k] = Opening(d)
      BY <1>5, <3>1
    <3>3. c = d
      BY <3>1, <3>2, OpeningDiffers
    <3>4. \A j : Opens(v, c, j) => j = k
      BY <1>5, <3>1 DEF Opens, IsInjective
    <3>5. QED
      BY <1>8, <3>1, <3>3, <3>4
  <2>3. \A c \in K : \E k : Opens(v, c, k)
    BY <1>5 DEF Opens
  <2>4. QED
    BY <2>1, <2>2, <2>3
<1>10. CASE ~ Emits(tree, s)
  <2>1. q = <<>> \o v
    BY <1>2, <1>3, <1>10 DEF Pushed, Emits, Closing
  <2>2. q = v
    BY <1>8, <2>1
  <2>3. QED
    BY <1>1, <1>8, <1>9, <1>10, <2>2
<1>11. CASE Emits(tree, s)
  <2>1. PICK e : e = Closing(s)
    OBVIOUS
  <2>2. q = <<e>> \o v
    BY <1>2, <1>3, <1>11, <2>1 DEF Pushed, Emits, Closing
  <2>3. e \in Entries(S)
    BY <2>1, EntryFacts
  <2>4. PICK one : one = <<e>>
    OBVIOUS
  <2>5. one \in Seq(Entries(S)) /\ Len(one) = 1 /\ one[1] = e
    BY <2>3, <2>4
  <2>6. /\ q \in Seq(Entries(S)) /\ Len(q) = 1 + n
        /\ \A i \in 1 .. 1 + n : q[i] = IF i <= 1 THEN one[i] ELSE v[i - 1]
    BY <1>6, <1>8, <2>2, <2>4, <2>5, ConcatProperties
  <2>7. DOMAIN q = 1 .. n + 1 /\ q[1] = e
    BY <1>8, <2>5, <2>6
  <2>8. \A i : i \in 2 .. n + 1 => i - 1 \in 1 .. n /\ q[i] = v[i - 1]
    BY <1>8, <2>6
  <2>9. ASSUME NEW k
        PROVE  /\ k = 1 => k \in DOMAIN q /\ q[k] = e
               /\ k # 1 => /\ k \in DOMAIN q <=> k \in Int /\ k - 1 \in 1 .. n
                           /\ k \in DOMAIN q => q[k] = v[k - 1]
    BY <1>8, <2>7, <2>8
  <2>10. \A u : (Closing(u) = e => u = s) /\ Opening(u) # e
    BY <2>1, OpeningDiffers, ClosingDiffers
  <2>11. ASSUME NEW u, NEW k PROVE Closes(q, u, k) <=> u = s /\ k = 1
    <3>1. CASE k = 1
      BY <2>1, <2>9, <2>10, <3>1 DEF Closes
    <3>2. CASE k # 1
      BY <1>8, <1>9, <2>9, <3>2 DEF Closes
    <3>3. QED
      BY <3>1, <3>2
  <2>12. ASSUME NEW c, NEW k
         PROVE  Opens(q, c, k) <=> k - 1 \in 1 .. n /\ k \in Int /\ Opens(v, c, k - 1)
    <3>1. CASE k = 1
      BY <1>8, <2>9, <2>10, <3>1 DEF Opens
    <3>2. CASE k # 1
      BY <1>8, <2>9, <3>2 DEF Opens
    <3>3. QED
      BY <3>1, <3>2
  <2>13. ASSUME NEW c, NEW k, Opens(q, c, k)
         PROVE  c \in K /\ 1 <= k /\ 1 < k /\ \A j : Opens(q, c, j) => j = k
    <3>1. k - 1 \in 1 .. n /\ k \in Int /\ Opens(v, c, k - 1)
      BY <2>12, <2>13
    <3>2. ASSUME NEW j, Opens(q, c, j) PROVE j = k
      <4>1. j - 1 \in 1 .. n /\ j \in Int /\ Opens(v, c, j - 1)
        BY <2>12, <3>2
      <4>2. j - 1 = k - 1
        BY <1>9, <3>1, <4>1
      <4>3. QED
        BY <3>1, <4>1, <4>2
    <3>3. QED
      BY <1>8, <1>9, <3>1, <3>2
  <2>14. ASSUME NEW c \in K PROVE \E k : Opens(q, c, k)
    <3>1. PICK k : Opens(v, c, k) /\ k \in 1 .. n
      BY <1>9
    <3>2. (k + 1) - 1 = k /\ k + 1 \in Int
      BY <1>8, <3>1
    <3>3. Opens(q, c, k + 1)
      BY <2>12, <3>1, <3>2
    <3>4. QED
      BY <3>3
  <2>15. QED
    BY <1>1, <1>11, <2>6, <2>11, <2>13, <2>14
<1>12. QED
  BY <1>10, <1>11

-----------------------------------------------------------------------------
(* What a turn does to the stack, to the spans visited and to the events.  *)

Begins(out, s, i) == i \in DOMAIN out /\ out[i].span = s /\ out[i].part = "start"
Ends(out, s, i) == i \in DOMAIN out /\ out[i].span = s /\ out[i].part # "start"
FailsAt(out, i) == out[i].part = "error"

Mark(tree, s, part) == [span |-> s, step |-> StepOf(tree, s), part |-> part]

Marked(out, longer, s, part, m) ==
  /\ m \in Nat
  /\ \A u, i : Begins(out, u, i) \/ Ends(out, u, i) => i \in Nat /\ i <= m
  /\ \A u, i : Begins(longer, u, i) <=>
       Begins(out, u, i) \/ (u = s /\ part = "start" /\ i = m + 1)
  /\ \A u, i : Ends(longer, u, i) <=>
       Ends(out, u, i) \/ (u = s /\ part # "start" /\ i = m + 1)
  /\ \A u, i : Ends(out, u, i) => (FailsAt(longer, i) <=> FailsAt(out, i))
  /\ FailsAt(longer, m + 1) <=> part = "error"

LEMMA MarkAppended ==
  ASSUME NEW tree, NEW out, \E E : out \in Seq(E), NEW s, NEW part \in {"start", "end", "error"},
         NEW m, m = Len(out), NEW longer, longer = Append(out, Mark(tree, s, part))
  PROVE  Marked(out, longer, s, part, m)
<1>1. PICK E : out \in Seq(E)
  OBVIOUS
<1>2. PICK x : x = Mark(tree, s, part)
  OBVIOUS
<1>3. x.span = s /\ x.part = part
  BY <1>2 DEF Mark
<1>4. out \in Seq(E \cup {x}) /\ m \in Nat /\ DOMAIN out = 1 .. m
  <2>1. m \in Nat /\ DOMAIN out = 1 .. m /\ out \in [1 .. m -> E]
    BY <1>1, LenProperties
  <2>2. out \in [1 .. m -> E \cup {x}]
    BY <2>1
  <2>3. QED
    BY <2>1, <2>2, SeqDef
<1>5. /\ Len(longer) = m + 1 /\ DOMAIN longer = 1 .. m + 1 /\ longer[m + 1] = x
      /\ \A i \in 1 .. m : longer[i] = out[i]
  <2>1. longer = Append(out, x) /\ x \in E \cup {x}
    BY <1>2
  <2>2. PICK D : D = E \cup {x}
    OBVIOUS
  <2>3. /\ longer \in Seq(D) /\ Len(longer) = m + 1 /\ longer[m + 1] = x
        /\ \A i \in 1 .. m : longer[i] = out[i]
    BY <1>4, <2>1, <2>2, AppendProperties
  <2>4. QED
    BY <2>3, LenProperties
<1>6. \A i : i \in DOMAIN longer <=> i \in DOMAIN out \/ i = m + 1
  BY <1>4, <1>5
<1>7. m + 1 \notin DOMAIN out /\ \A i \in DOMAIN out : longer[i] = out[i] /\ i \in Nat /\ i <= m
  BY <1>4, <1>5
<1>8. ASSUME NEW u, NEW i
      PROVE  Begins(longer, u, i) <=> Begins(out, u, i) \/ (u = s /\ part = "start" /\ i = m + 1)
  BY <1>3, <1>5, <1>6, <1>7 DEF Begins
<1>9. ASSUME NEW u, NEW i
      PROVE  Ends(longer, u, i) <=> Ends(out, u, i) \/ (u = s /\ part # "start" /\ i = m + 1)
  BY <1>3, <1>5, <1>6, <1>7 DEF Ends
<1>10. \A u, i : Ends(out, u, i) => (FailsAt(longer, i) <=> FailsAt(out, i))
  BY <1>7 DEF Ends, FailsAt
<1>11. FailsAt(longer, m + 1) <=> part = "error"
  BY <1>3, <1>5 DEF FailsAt
<1>12. \A u, i : Begins(out, u, i) \/ Ends(out, u, i) => i \in Nat /\ i <= m
  BY <1>7 DEF Begins, Ends
<1>13. QED
  BY <1>4, <1>8, <1>9, <1>10, <1>11, <1>12 DEF Marked

(* What lies on a stack once its top is gone, and once p is put in place   *)
(* of its top.                                                             *)
LEMMA PopFacts ==
  ASSUME NEW S, NEW stack \in Seq(Entries(S)), stack # <<>>, NEW n, n = Len(stack),
         NEW rest, rest = Front(stack)
  PROVE  /\ n \in Nat /\ 1 <= n /\ rest \in Seq(Entries(S)) /\ Len(rest) = n - 1
         /\ Last(stack) \in Entries(S) /\ Last(stack) = stack[n] /\ n \in DOMAIN stack
         /\ \A u, k : Opens(stack, u, k) \/ Closes(stack, u, k) => k \in Nat /\ 1 <= k /\ k <= n
         /\ \A u, k : Opens(rest, u, k) <=> Opens(stack, u, k) /\ k # n
         /\ \A u, k : Closes(rest, u, k) <=> Closes(stack, u, k) /\ k # n
<1>1. n \in Nat /\ DOMAIN stack = 1 .. n /\ n # 0 /\ \A k \in 1 .. n : stack[k] \in Entries(S)
  BY EmptySeq, LenProperties
<1>2. rest = [k \in 1 .. n - 1 |-> stack[k]]
  <2>1. rest = SubSeq(stack, 1, n - 1)
    BY DEF Front
  <2>2. QED
    BY <1>1, <2>1
<1>3. rest \in [1 .. n - 1 -> Entries(S)] /\ n - 1 \in Nat
  BY <1>1, <1>2
<1>4. rest \in Seq(Entries(S)) /\ Len(rest) = n - 1 /\ DOMAIN rest = 1 .. n - 1
  BY <1>2, <1>3
<1>5. Last(stack) = stack[n] /\ n \in 1 .. n
  BY <1>1 DEF Last
<1>6. \A k : /\ k \in DOMAIN rest <=> k \in DOMAIN stack /\ k # n
             /\ k \in DOMAIN rest => rest[k] = stack[k]
  BY <1>1, <1>2, <1>4
<1>7. \A u, k : Opens(rest, u, k) <=> Opens(stack, u, k) /\ k # n
  BY <1>6 DEF Opens
<1>8. \A u, k : Closes(rest, u, k) <=> Closes(stack, u, k) /\ k # n
  BY <1>6 DEF Closes
<1>9. \A u, k : Opens(stack, u, k) \/ Closes(stack, u, k) => k \in Nat /\ 1 <= k /\ k <= n
  BY <1>1 DEF Opens, Closes
<1>10. QED
  BY <1>1, <1>4, <1>5, <1>7, <1>8, <1>9

PutOn(S, rest, p, n, q) ==
  /\ q \in Seq(Entries(S))
  /\ \A u, k : Opens(q, u, k) <=>
       Opens(rest, u, k) \/ (k \in Int /\ Opens(p, u, k - n + 1))
  /\ \A u, k : Closes(q, u, k) <=>
       Closes(rest, u, k) \/ (k \in Int /\ Closes(p, u, k - n + 1))

LEMMA PutFacts ==
  ASSUME NEW S, NEW rest \in Seq(Entries(S)), NEW p \in Seq(Entries(S)),
         NEW n \in Nat, Len(rest) = n - 1, NEW q, q = rest \o p
  PROVE  PutOn(S, rest, p, n, q)
<1>1. Len(rest) \in Nat /\ DOMAIN rest = 1 .. n - 1 /\ Len(p) \in Nat /\ DOMAIN p = 1 .. Len(p)
  BY LenProperties
<1>2. PICK m : m = Len(p)
  OBVIOUS
<1>3. /\ q \in Seq(Entries(S)) /\ Len(q) = n - 1 + m
      /\ \A k \in 1 .. n - 1 + m : q[k] = IF k <= n - 1 THEN rest[k] ELSE p[k - (n - 1)]
  <2>1. PICK D : D = Entries(S)
    OBVIOUS
  <2>2. rest \in Seq(D) /\ p \in Seq(D)
    BY <2>1
  <2>3. /\ q \in Seq(D) /\ Len(q) = Len(rest) + Len(p)
        /\ \A k \in 1 .. Len(rest) + Len(p) :
             q[k] = IF k <= Len(rest) THEN rest[k] ELSE p[k - Len(rest)]
    BY <2>2, ConcatProperties
  <2>4. QED
    BY <1>2, <2>1, <2>3
<1>4. DOMAIN q = 1 .. n - 1 + m
  BY <1>3, LenProperties
<1>5. ASSUME NEW k
      PROVE  /\ k \in DOMAIN q <=> k \in DOMAIN rest \/ (k \in Int /\ k - n + 1 \in DOMAIN p)
             /\ k \in DOMAIN rest => q[k] = rest[k] /\ k - n + 1 \notin DOMAIN p
             /\ k \in Int /\ k - n + 1 \in DOMAIN p => q[k] = p[k - n + 1] /\ k \notin DOMAIN rest
  <2>1. k \in Int => k - (n - 1) = k - n + 1
    OBVIOUS
  <2>2. /\ k \in DOMAIN rest <=> k \in Int /\ 1 <= k /\ k <= n - 1
        /\ k \in DOMAIN q <=> k \in Int /\ 1 <= k /\ k <= n - 1 + m
        /\ k \in Int => (k - n + 1 \in DOMAIN p <=> n <= k /\ k <= n - 1 + m)
        /\ n \in Nat /\ m \in Nat /\ n - 1 \in Nat
    BY <1>1, <1>2, <1>4
  <2>3. k \in Int /\ k - n + 1 \in DOMAIN p => q[k] = p[k - n + 1] /\ k \notin DOMAIN rest
    BY <1>3, <2>1, <2>2
  <2>4. k \in DOMAIN rest => q[k] = rest[k] /\ k - n + 1 \notin DOMAIN p
    BY <1>3, <2>2
  <2>5. k \in DOMAIN q <=> k \in DOMAIN rest \/ (k \in Int /\ k - n + 1 \in DOMAIN p)
    BY <2>2
  <2>6. QED
    BY <2>3, <2>4, <2>5
<1>6. \A u, k : Opens(q, u, k) <=> Opens(rest, u, k) \/ (k \in Int /\ Opens(p, u, k - n + 1))
  BY <1>5 DEF Opens
<1>7. \A u, k : Closes(q, u, k) <=> Closes(rest, u, k) \/ (k \in Int /\ Closes(p, u, k - n + 1))
  BY <1>5 DEF Closes
<1>8. QED
  BY <1>3, <1>6, <1>7 DEF PutOn

(* The turn that visits s, which lies open on top of w at n, and the turn  *)
(* that closes it.                                                         *)
Uses(stack, n) ==
  \A u, k : Opens(stack, u, k) \/ Closes(stack, u, k) => k \in Nat /\ k <= n

Descends(tree, S, w, x, s, n, m) ==
  /\ n \in Nat /\ s \in S /\ Opens(w.stack, s, n) /\ Uses(w.stack, n)
  /\ x.visited = w.visited \cup {s}
  /\ \A u, k : Closes(x.stack, u, k) <=>
       (Closes(w.stack, u, k) /\ k # n) \/ (u = s /\ Emits(tree, s) /\ k = n)
  /\ \A u, k : Opens(w.stack, u, k) /\ k # n => Opens(x.stack, u, k)
  /\ \A c \in Kids(tree, S, s) : \E k : Opens(x.stack, c, k)
  /\ \A c, k : Opens(x.stack, c, k) =>
       \/ Opens(w.stack, c, k) /\ k # n
       \/ /\ c \in Kids(tree, S, s) /\ k \in Nat /\ n <= k /\ (Emits(tree, s) => n < k)
          /\ \A j : Opens(x.stack, c, j) => j = k \/ (Opens(w.stack, c, j) /\ j # n)
  /\ m \in Nat
  /\ \A u, i : Begins(w.out, u, i) \/ Ends(w.out, u, i) => i \in Nat /\ i <= m
  /\ \A u, i : Begins(x.out, u, i) <=>
       Begins(w.out, u, i) \/ (u = s /\ Emits(tree, s) /\ i = m + 1)
  /\ \A u, i : Ends(x.out, u, i) <=> Ends(w.out, u, i)
  /\ \A u, i : Ends(w.out, u, i) => (FailsAt(x.out, i) <=> FailsAt(w.out, i))

Returns(failed, w, x, s, n, m) ==
  /\ n \in Nat /\ Closes(w.stack, s, n) /\ Uses(w.stack, n)
  /\ x.visited = w.visited
  /\ \A u, k : Closes(x.stack, u, k) <=> Closes(w.stack, u, k) /\ k # n
  /\ \A u, k : Opens(x.stack, u, k) <=> Opens(w.stack, u, k) /\ k # n
  /\ m \in Nat
  /\ \A u, i : Begins(w.out, u, i) \/ Ends(w.out, u, i) => i \in Nat /\ i <= m
  /\ \A u, i : Begins(x.out, u, i) <=> Begins(w.out, u, i)
  /\ \A u, i : Ends(x.out, u, i) <=> Ends(w.out, u, i) \/ (u = s /\ i = m + 1)
  /\ \A u, i : Ends(w.out, u, i) => (FailsAt(x.out, i) <=> FailsAt(w.out, i))
  /\ FailsAt(x.out, m + 1) <=> s \in failed

WalkTypes(S, w) ==
  /\ IsWalk(w) /\ w.visited \in SUBSET S /\ w.stack \in Seq(Entries(S))

Unvisited(w) == \A u, k : Opens(w.stack, u, k) => u \notin w.visited

LEMMA TurnIs ==
  ASSUME NEW tree, NEW S, IsTrace(S), NEW failed, NEW w, WalkTypes(S, w), Unvisited(w),
         w.stack # <<>>, NEW x, x = Turn(tree, S, failed, w)
  PROVE  /\ WalkTypes(S, x)
         /\ \E s, n, m : Descends(tree, S, w, x, s, n, m) \/ Returns(failed, w, x, s, n, m)
<1>1. PICK stack : stack = w.stack
  OBVIOUS
<1>2. PICK rest : rest = Front(stack)
  OBVIOUS
<1>3. PICK n : n = Len(stack)
  OBVIOUS
<1>4. PICK s : s = Last(stack).span
  OBVIOUS
<1>5. PICK m : m = Len(w.out)
  OBVIOUS
<1>6. /\ w = [stack |-> w.stack, visited |-> w.visited, out |-> w.out]
      /\ (\E E : w.out \in Seq(E)) /\ w.visited \in SUBSET S /\ stack \in Seq(Entries(S))
  BY <1>1 DEF WalkTypes, IsWalk
<1>7. /\ n \in Nat /\ 1 <= n /\ rest \in Seq(Entries(S)) /\ Len(rest) = n - 1
      /\ Last(stack) \in Entries(S) /\ Last(stack) = stack[n] /\ n \in DOMAIN stack
      /\ \A u, k : Opens(stack, u, k) \/ Closes(stack, u, k) => k \in Nat /\ 1 <= k /\ k <= n
      /\ \A u, k : Opens(rest, u, k) <=> Opens(stack, u, k) /\ k # n
      /\ \A u, k : Closes(rest, u, k) <=> Closes(stack, u, k) /\ k # n
  BY <1>1, <1>2, <1>3, <1>6, PopFacts
<1>8. Uses(stack, n) /\ s \in S
  <2>1. s \in S
    BY <1>4, <1>7, EntryIs
  <2>2. QED
    BY <1>7, <2>1 DEF Uses
<1>9. IsWalk(x)
  BY TurnKeepsWalk DEF WalkTypes
<1>10. CASE Last(stack).closing
  <2>1. PICK part : part = IF s \in failed THEN "error" ELSE "end"
    OBVIOUS
  <2>2. part \in {"start", "end", "error"} /\ part # "start" /\ (part = "error" <=> s \in failed)
    BY <2>1
  <2>3. PICK longer : longer = Append(w.out, Mark(tree, s, part))
    OBVIOUS
  <2>4. x = [w EXCEPT !.stack = rest, !.out = longer]
    BY <1>1, <1>2, <1>4, <1>10, <2>1, <2>3 DEF Turn, Mark
  <2>5. x.stack = rest /\ x.visited = w.visited /\ x.out = longer
    BY <1>6, <2>4
  <2>6. Closes(stack, s, n)
    BY <1>4, <1>7, <1>10, EntryIs DEF Closes
  <2>7. /\ m \in Nat
        /\ \A u, i : Begins(w.out, u, i) \/ Ends(w.out, u, i) => i \in Nat /\ i <= m
        /\ \A u, i : Begins(longer, u, i) <=>
             Begins(w.out, u, i) \/ (u = s /\ part = "start" /\ i = m + 1)
        /\ \A u, i : Ends(longer, u, i) <=>
             Ends(w.out, u, i) \/ (u = s /\ part # "start" /\ i = m + 1)
        /\ \A u, i : Ends(w.out, u, i) => (FailsAt(longer, i) <=> FailsAt(w.out, i))
        /\ FailsAt(longer, m + 1) <=> part = "error"
    <3>1. PICK out : out = w.out
      OBVIOUS
    <3>2. Marked(out, longer, s, part, m)
      BY <1>5, <1>6, <2>2, <2>3, <3>1, MarkAppended
    <3>3. QED
      BY <3>1, <3>2 DEF Marked
  <2>8. Returns(failed, w, x, s, n, m)
    BY <1>1, <1>7, <1>8, <2>2, <2>5, <2>6, <2>7 DEF Returns
  <2>9. WalkTypes(S, x)
    BY <1>6, <1>7, <1>9, <2>5 DEF WalkTypes
  <2>10. QED
    BY <2>8, <2>9
<1>11. CASE ~ Last(stack).closing
  <2>1. Opens(stack, s, n)
    BY <1>4, <1>7, <1>11, EntryIs DEF Opens
  <2>2. s \notin w.visited
    BY <1>1, <2>1 DEF Unvisited
  <2>3. PICK p : p = Pushed(tree, S, s)
    OBVIOUS
  <2>4. PICK q : q = rest \o p
    OBVIOUS
  <2>5. PICK longer : longer = Append(w.out, Mark(tree, s, "start"))
    OBVIOUS
  <2>6. x = [stack |-> q, visited |-> w.visited \cup {s},
             out |-> IF Emits(tree, s) THEN longer ELSE w.out]
    BY <1>1, <1>2, <1>4, <1>11, <2>2, <2>3, <2>4, <2>5 DEF Turn, Mark, Emits
  <2>7. /\ x.stack = q /\ x.visited = w.visited \cup {s}
        /\ Emits(tree, s) => x.out = longer
        /\ ~ Emits(tree, s) => x.out = w.out
    BY <2>6
  <2>8. /\ p \in Seq(Entries(S))
        /\ \A u, k : Closes(p, u, k) <=> u = s /\ Emits(tree, s) /\ k = 1
        /\ \A c, k : Opens(p, c, k) =>
             /\ c \in Kids(tree, S, s) /\ 1 <= k /\ (Emits(tree, s) => 1 < k)
             /\ \A j : Opens(p, c, j) => j = k
        /\ \A c \in Kids(tree, S, s) : \E k : Opens(p, c, k)
    BY <1>8, <2>3, PushedList
  <2>9. /\ q \in Seq(Entries(S))
        /\ \A u, k : Opens(q, u, k) <=>
             Opens(rest, u, k) \/ (k \in Int /\ Opens(p, u, k - n + 1))
        /\ \A u, k : Closes(q, u, k) <=>
             Closes(rest, u, k) \/ (k \in Int /\ Closes(p, u, k - n + 1))
    <3>1. p \in Seq(Entries(S)) /\ rest \in Seq(Entries(S)) /\ n \in Nat /\ Len(rest) = n - 1
      BY <1>7, <2>8
    <3>2. PutOn(S, rest, p, n, q)
      BY <2>4, <3>1, PutFacts
    <3>3. QED
      BY <3>2 DEF PutOn
  <2>10. WalkTypes(S, x)
    BY <1>6, <1>8, <1>9, <2>7, <2>9 DEF WalkTypes
  <2>11. ASSUME NEW u, NEW k
         PROVE  Closes(q, u, k) <=>
                  (Closes(stack, u, k) /\ k # n) \/ (u = s /\ Emits(tree, s) /\ k = n)
    <3>1. k \in Int => (k - n + 1 = 1 <=> k = n)
      BY <1>7
    <3>2. QED
      BY <1>7, <2>8, <2>9, <3>1
  <2>12. \A u, k : Opens(stack, u, k) /\ k # n => Opens(q, u, k)
    BY <1>7, <2>9
  <2>13. ASSUME NEW c \in Kids(tree, S, s) PROVE \E k : Opens(q, c, k)
    <3>1. PICK j : Opens(p, c, j)
      BY <2>8
    <3>2. j \in Nat
      BY <2>8, <3>1, LenProperties DEF Opens
    <3>3. j + n - 1 \in Int /\ (j + n - 1) - n + 1 = j
      BY <1>7, <3>2
    <3>4. QED
      BY <2>9, <3>1, <3>3
  <2>14. ASSUME NEW c, NEW k, Opens(q, c, k), ~ (Opens(stack, c, k) /\ k # n)
         PROVE  /\ c \in Kids(tree, S, s) /\ k \in Nat /\ n <= k /\ (Emits(tree, s) => n < k)
                /\ \A j : Opens(q, c, j) => j = k \/ (Opens(stack, c, j) /\ j # n)
    <3>1. k \in Int /\ Opens(p, c, k - n + 1)
      BY <1>7, <2>9, <2>14
    <3>2. c \in Kids(tree, S, s) /\ 1 <= k - n + 1 /\ (Emits(tree, s) => 1 < k - n + 1)
      BY <2>8, <3>1
    <3>3. k \in Nat /\ n <= k /\ (Emits(tree, s) => n < k)
      BY <1>7, <3>1, <3>2
    <3>4. ASSUME NEW j, Opens(q, c, j), ~ (Opens(stack, c, j) /\ j # n) PROVE j = k
      <4>1. j \in Int /\ Opens(p, c, j - n + 1)
        BY <1>7, <2>9, <3>4
      <4>2. j - n + 1 = k - n + 1
        BY <2>8, <3>1, <4>1
      <4>3. QED
        BY <1>7, <3>1, <4>1, <4>2
    <3>5. QED
      BY <3>2, <3>3, <3>4
  <2>15. /\ m \in Nat
         /\ \A u, i : Begins(w.out, u, i) \/ Ends(w.out, u, i) => i \in Nat /\ i <= m
         /\ \A u, i : Begins(longer, u, i) <=>
              Begins(w.out, u, i) \/ (u = s /\ i = m + 1)
         /\ \A u, i : Ends(longer, u, i) <=> Ends(w.out, u, i)
         /\ \A u, i : Ends(w.out, u, i) => (FailsAt(longer, i) <=> FailsAt(w.out, i))
    <3>1. PICK out : out = w.out
      OBVIOUS
    <3>2. Marked(out, longer, s, "start", m)
      BY <1>5, <1>6, <2>5, <3>1, MarkAppended
    <3>3. QED
      BY <3>1, <3>2 DEF Marked
  <2>16. /\ \A u, i : Begins(x.out, u, i) <=>
              Begins(w.out, u, i) \/ (u = s /\ Emits(tree, s) /\ i = m + 1)
         /\ \A u, i : Ends(x.out, u, i) <=> Ends(w.out, u, i)
         /\ \A u, i : Ends(w.out, u, i) => (FailsAt(x.out, i) <=> FailsAt(w.out, i))
    BY <2>7, <2>15
  <2>17. Descends(tree, S, w, x, s, n, m)
    BY <1>1, <1>7, <1>8, <2>1, <2>7, <2>11, <2>12, <2>13, <2>14, <2>15, <2>16 DEF Descends
  <2>18. QED
    BY <2>10, <2>17
<1>12. QED
  BY <1>10, <1>11

-----------------------------------------------------------------------------
(* What every turn keeps.  A span is on the stack open until it is visited *)
(* and, if it emits, closing until it ends; below it lies whatever it is   *)
(* nested in.                                                              *)

StackInv(tree, S, w) ==
  /\ \A u, k : Closes(w.stack, u, k) =>
       u \in w.visited /\ Emits(tree, u) /\ \A j : Closes(w.stack, u, j) => j = k
  /\ \A u, k : Opens(w.stack, u, k) =>
       u \in S /\ u \notin w.visited /\ \A j : Opens(w.stack, u, j) => j = k

Found(S, w) == w.visited \cup {u \in S : \E k : Opens(w.stack, u, k)}

ReachInv(tree, S, w) ==
  /\ Tops(tree, S) \subseteq Found(S, w) /\ Found(S, w) \subseteq Reachable(tree, S)
  /\ \A p \in w.visited : Kids(tree, S, p) \subseteq Found(S, w)
  /\ \A c \in Found(S, w) :
       c \in Tops(tree, S) \/ \E p \in w.visited : c \in Kids(tree, S, p)

EventInv(tree, S, failed, w) ==
  /\ \A u, i : Begins(w.out, u, i) \/ Ends(w.out, u, i) => u \in w.visited /\ Emits(tree, u)
  /\ \A u \in w.visited : Emits(tree, u) =>
       /\ \E i : Begins(w.out, u, i)
       /\ (\E k : Closes(w.stack, u, k)) \/ (\E i : Ends(w.out, u, i))
  /\ \A u, i, j : Begins(w.out, u, i) /\ Begins(w.out, u, j) => i = j
  /\ \A u, i, j : Ends(w.out, u, i) /\ Ends(w.out, u, j) => i = j
  /\ \A u, i, j : Begins(w.out, u, i) /\ Ends(w.out, u, j) => i < j
  /\ \A u, i, k : Ends(w.out, u, i) => ~ Closes(w.stack, u, k)
  /\ \A u, i : Ends(w.out, u, i) => (FailsAt(w.out, i) <=> u \in failed)

(* s is next below u, which emits.                                         *)
NestInv(tree, S, w, u, s) ==
  /\ s \in w.visited => u \in w.visited
  /\ \A i, j : Begins(w.out, u, i) /\ Begins(w.out, s, j) => i < j
  /\ \A k : Opens(w.stack, s, k) \/ Closes(w.stack, s, k) =>
       \E j : Closes(w.stack, u, j) /\ j < k
  /\ \A i : Ends(w.out, u, i) /\ s \in w.visited /\ Emits(tree, s) =>
       \E j : Ends(w.out, s, j) /\ j < i

NestsInv(tree, S, w) ==
  \A u \in S : Emits(tree, u) =>
    \A s \in NextBelow(tree, S, u) : NestInv(tree, S, w, u, s)

WalkInv(tree, S, failed, w) ==
  /\ WalkTypes(S, w) /\ StackInv(tree, S, w) /\ ReachInv(tree, S, w)
  /\ EventInv(tree, S, failed, w) /\ NestsInv(tree, S, w)

(* A span that is found again would have two parents.                      *)
LEMMA NewKids ==
  ASSUME NEW tree, NEW S, IsTrace(S), NEW w, w.visited \in SUBSET S, ReachInv(tree, S, w),
         NEW s \in S, s \notin w.visited, NEW c \in Kids(tree, S, s)
  PROVE  c \in S /\ c # s /\ c \notin Found(S, w)
<1>1. c \in S /\ c # s /\ c \notin Tops(tree, S)
  BY OneParent
<1>2. ASSUME NEW p \in w.visited PROVE c \notin Kids(tree, S, p)
  BY <1>2, OneParent
<1>3. QED
  BY <1>1, <1>2 DEF ReachInv

LEMMA FoundGrows ==
  ASSUME NEW tree, NEW S, IsTrace(S), NEW w, NEW x, NEW s, NEW n, NEW m,
         Descends(tree, S, w, x, s, n, m), StackInv(tree, S, w)
  PROVE  Found(S, x) = Found(S, w) \cup Kids(tree, S, s)
<1> DEFINE K == Kids(tree, S, s)
<1>1. K \subseteq S
  BY DEF Kids
<1> HIDE DEF K
<1>2. /\ s \in S /\ Opens(w.stack, s, n) /\ x.visited = w.visited \cup {s}
      /\ \A u, k : Opens(w.stack, u, k) /\ k # n => Opens(x.stack, u, k)
      /\ \A c \in K : \E k : Opens(x.stack, c, k)
      /\ \A c, k : Opens(x.stack, c, k) => (Opens(w.stack, c, k) /\ k # n) \/ c \in K
  BY DEF Descends, K
<1>3. ASSUME NEW u, Opens(w.stack, u, n) PROVE u = s
  BY <1>2, <1>3, OpeningDiffers DEF Opens
<1>4. ASSUME NEW u \in Found(S, x) PROVE u \in Found(S, w) \cup K
  BY <1>2, <1>4 DEF Found
<1>5. ASSUME NEW u \in K PROVE u \in Found(S, x)
  BY <1>1, <1>2, <1>5 DEF Found
<1>6. ASSUME NEW u \in Found(S, w) PROVE u \in Found(S, x)
  <2>1. CASE u \in x.visited
    BY <2>1 DEF Found
  <2>2. CASE u \notin x.visited
    <3>1. u \in S /\ u # s /\ \E k : Opens(w.stack, u, k)
      BY <1>2, <1>6, <2>2 DEF Found
    <3>2. PICK k : Opens(w.stack, u, k) /\ k # n
      BY <1>3, <3>1
    <3>3. QED
      BY <1>2, <3>1, <3>2 DEF Found
  <2>3. QED
    BY <2>1, <2>2
<1>7. QED
  BY <1>4, <1>5, <1>6 DEF K

-----------------------------------------------------------------------------
(* The turn that visits a span.                                            *)

LEMMA DescendKeepsStack ==
  ASSUME NEW tree, NEW S, IsTrace(S), NEW w, NEW x, NEW s, NEW n, NEW m,
         w.visited \in SUBSET S, Descends(tree, S, w, x, s, n, m),
         StackInv(tree, S, w), ReachInv(tree, S, w)
  PROVE  StackInv(tree, S, x)
<1>1. /\ s \in S /\ Opens(w.stack, s, n) /\ x.visited = w.visited \cup {s}
      /\ \A u, k : Closes(x.stack, u, k) <=>
           (Closes(w.stack, u, k) /\ k # n) \/ (u = s /\ Emits(tree, s) /\ k = n)
      /\ \A c, k : Opens(x.stack, c, k) =>
           \/ Opens(w.stack, c, k) /\ k # n
           \/ /\ c \in Kids(tree, S, s)
              /\ \A j : Opens(x.stack, c, j) => j = k \/ (Opens(w.stack, c, j) /\ j # n)
  BY DEF Descends
<1>2. s \notin w.visited
  BY <1>1 DEF StackInv
<1>3. ASSUME NEW u, NEW k, Closes(x.stack, u, k)
      PROVE  u \in x.visited /\ Emits(tree, u) /\ \A j : Closes(x.stack, u, j) => j = k
  BY <1>1, <1>2, <1>3 DEF StackInv
<1>4. ASSUME NEW c \in Kids(tree, S, s)
      PROVE  c \in S /\ c # s /\ c \notin w.visited /\ \A k : ~ Opens(w.stack, c, k)
  <2>1. c \in S /\ c # s /\ c \notin Found(S, w)
    BY <1>1, <1>2, NewKids
  <2>2. QED
    BY <2>1 DEF Found
<1>5. ASSUME NEW u, Opens(w.stack, u, n) PROVE u = s
  BY <1>1, <1>5, OpeningDiffers DEF Opens
<1>6. ASSUME NEW u, NEW k, Opens(x.stack, u, k)
      PROVE  u \in S /\ u \notin x.visited /\ \A j : Opens(x.stack, u, j) => j = k
  <2>1. CASE u \in Kids(tree, S, s)
    BY <1>1, <1>4, <1>6, <2>1
  <2>2. CASE u \notin Kids(tree, S, s)
    <3>1. Opens(w.stack, u, k) /\ k # n /\ \A j : Opens(x.stack, u, j) => Opens(w.stack, u, j)
      BY <1>1, <1>6, <2>2
    <3>2. u \in S /\ u \notin w.visited /\ \A j : Opens(w.stack, u, j) => j = k
      BY <3>1 DEF StackInv
    <3>3. u # s
      BY <1>1, <3>1, <3>2
    <3>4. QED
      BY <1>1, <3>1, <3>2, <3>3
  <2>3. QED
    BY <2>1, <2>2
<1>7. QED
  BY <1>3, <1>6 DEF StackInv

LEMMA DescendKeepsReach ==
  ASSUME NEW tree, NEW S, IsTrace(S), NEW w, NEW x, NEW s, NEW n, NEW m,
         Descends(tree, S, w, x, s, n, m), StackInv(tree, S, w), ReachInv(tree, S, w)
  PROVE  ReachInv(tree, S, x)
<1>1. s \in S /\ Opens(w.stack, s, n) /\ x.visited = w.visited \cup {s}
  BY DEF Descends
<1>2. s \in Found(S, w)
  BY <1>1 DEF Found
<1>3. Found(S, x) = Found(S, w) \cup Kids(tree, S, s)
  BY FoundGrows
<1>4. \A p \in Reachable(tree, S) : Kids(tree, S, p) \subseteq Reachable(tree, S)
  BY ReachableIs
<1>5. QED
  BY <1>1, <1>2, <1>3, <1>4 DEF ReachInv

LEMMA DescendKeepsEvents ==
  ASSUME NEW tree, NEW S, NEW failed, NEW w, NEW x, NEW s, NEW n, NEW m,
         Descends(tree, S, w, x, s, n, m), StackInv(tree, S, w), EventInv(tree, S, failed, w)
  PROVE  EventInv(tree, S, failed, x)
<1>1. /\ Opens(w.stack, s, n) /\ x.visited = w.visited \cup {s} /\ m \in Nat
      /\ \A u, k : Closes(x.stack, u, k) <=>
           (Closes(w.stack, u, k) /\ k # n) \/ (u = s /\ Emits(tree, s) /\ k = n)
      /\ \A u, i : Begins(w.out, u, i) \/ Ends(w.out, u, i) => i \in Nat /\ i <= m
      /\ \A u, i : Begins(x.out, u, i) <=>
           Begins(w.out, u, i) \/ (u = s /\ Emits(tree, s) /\ i = m + 1)
      /\ \A u, i : Ends(x.out, u, i) <=> Ends(w.out, u, i)
      /\ \A u, i : Ends(w.out, u, i) => (FailsAt(x.out, i) <=> FailsAt(w.out, i))
  BY DEF Descends
<1>2. s \notin w.visited
  BY <1>1 DEF StackInv
<1>3. \A i : ~ Begins(w.out, s, i) /\ ~ Ends(w.out, s, i)
  BY <1>2 DEF EventInv
<1>4. \A u, k : Closes(w.stack, u, k) => k # n
  BY <1>1, OpeningDiffers DEF Opens, Closes
<1>5. \A u, i : Begins(x.out, u, i) \/ Ends(x.out, u, i) => u \in x.visited /\ Emits(tree, u)
  BY <1>1 DEF EventInv
<1>6. ASSUME NEW u \in x.visited, Emits(tree, u)
      PROVE  /\ \E i : Begins(x.out, u, i)
             /\ (\E k : Closes(x.stack, u, k)) \/ (\E i : Ends(x.out, u, i))
  <2>1. CASE u = s
    BY <1>1, <1>6, <2>1
  <2>2. CASE u # s
    BY <1>1, <1>4, <1>6, <2>2 DEF EventInv
  <2>3. QED
    BY <2>1, <2>2
<1>7. \A u, i, j : Begins(x.out, u, i) /\ Begins(x.out, u, j) => i = j
  BY <1>1, <1>3 DEF EventInv
<1>8. \A u, i, j : Ends(x.out, u, i) /\ Ends(x.out, u, j) => i = j
  BY <1>1 DEF EventInv
<1>9. \A u, i, j : Begins(x.out, u, i) /\ Ends(x.out, u, j) => i < j
  BY <1>1, <1>3 DEF EventInv
<1>10. \A u, i, k : Ends(x.out, u, i) => ~ Closes(x.stack, u, k)
  BY <1>1, <1>3 DEF EventInv
<1>11. \A u, i : Ends(x.out, u, i) => (FailsAt(x.out, i) <=> u \in failed)
  BY <1>1 DEF EventInv
<1>12. QED
  BY <1>5, <1>6, <1>7, <1>8, <1>9, <1>10, <1>11 DEF EventInv

LEMMA DescendKeepsNest ==
  ASSUME NEW tree, NEW S, IsTrace(S), NEW failed, NEW w, NEW x, NEW s, NEW n, NEW m,
         Descends(tree, S, w, x, s, n, m), StackInv(tree, S, w), StackInv(tree, S, x),
         EventInv(tree, S, failed, w), NestsInv(tree, S, w),
         NEW u \in S, Emits(tree, u), NEW v \in NextBelow(tree, S, u)
  PROVE  NestInv(tree, S, x, u, v)
<1>1. /\ s \in S /\ Opens(w.stack, s, n) /\ x.visited = w.visited \cup {s}
      /\ n \in Nat /\ m \in Nat
      /\ \A y, k : Opens(w.stack, y, k) \/ Closes(w.stack, y, k) => k \in Nat /\ k <= n
      /\ \A y, k : Closes(x.stack, y, k) <=>
           (Closes(w.stack, y, k) /\ k # n) \/ (y = s /\ Emits(tree, s) /\ k = n)
      /\ \A c, k : Opens(x.stack, c, k) =>
           \/ Opens(w.stack, c, k) /\ k # n
           \/ c \in Kids(tree, S, s) /\ k \in Nat /\ n <= k /\ (Emits(tree, s) => n < k)
      /\ \A y, i : Begins(w.out, y, i) \/ Ends(w.out, y, i) => i \in Nat /\ i <= m
      /\ \A y, i : Begins(x.out, y, i) <=>
           Begins(w.out, y, i) \/ (y = s /\ Emits(tree, s) /\ i = m + 1)
      /\ \A y, i : Ends(x.out, y, i) <=> Ends(w.out, y, i)
  BY DEF Descends, Uses
<1>2. s \notin w.visited /\ s \in x.visited
  BY <1>1 DEF StackInv
<1>3. \A i : ~ Begins(w.out, s, i) /\ ~ Ends(w.out, s, i) /\ ~ Closes(w.stack, s, i)
  BY <1>2 DEF EventInv, StackInv
<1>4. NestInv(tree, S, w, u, v) /\ (s \in NextBelow(tree, S, u) => NestInv(tree, S, w, u, s))
  BY DEF NestsInv
<1>5. CASE u = s
  <2>1. v \notin w.visited /\ \A k : ~ Opens(w.stack, v, k) /\ ~ Closes(w.stack, v, k)
    BY <1>2, <1>3, <1>4, <1>5 DEF NestInv
  <2>2. v # s /\ v \notin x.visited
    BY <1>1, <2>1
  <2>3. \A i : ~ Begins(x.out, v, i)
    BY <1>1, <2>1, <2>2 DEF EventInv
  <2>4. ASSUME NEW k, Opens(x.stack, v, k) \/ Closes(x.stack, v, k)
        PROVE  \E j : Closes(x.stack, u, j) /\ j < k
    <3>1. n < k
      BY <1>1, <1>5, <2>1, <2>2, <2>4
    <3>2. Closes(x.stack, u, n)
      BY <1>1, <1>5
    <3>3. QED
      BY <3>1, <3>2
  <2>5. QED
    BY <2>2, <2>3, <2>4 DEF NestInv
<1>6. CASE u # s /\ v = s
  <2>1. PICK j : Closes(w.stack, u, j) /\ j < n
    BY <1>1, <1>4, <1>6 DEF NestInv
  <2>2. u \in w.visited /\ \A i : ~ Ends(w.out, u, i)
    BY <2>1 DEF StackInv, EventInv
  <2>3. Closes(x.stack, u, j) /\ j \in Nat
    BY <1>1, <2>1
  <2>4. \A k : Opens(x.stack, v, k) \/ Closes(x.stack, v, k) => k = n
    BY <1>1, <1>2, <1>3, <1>6 DEF StackInv
  <2>5. \A i, k : Begins(x.out, u, i) /\ Begins(x.out, v, k) => i < k
    BY <1>1, <1>3, <1>6
  <2>6. \A i : ~ Ends(x.out, u, i)
    BY <1>1, <2>2
  <2>7. u \in x.visited
    BY <1>1, <2>2
  <2>8. \A k : Opens(x.stack, v, k) \/ Closes(x.stack, v, k) =>
          \E i : Closes(x.stack, u, i) /\ i < k
    BY <2>1, <2>3, <2>4
  <2>9. QED
    BY <2>5, <2>6, <2>7, <2>8 DEF NestInv
<1>7. CASE u # s /\ v # s
  <2>1. \A i, j : Begins(x.out, u, i) /\ Begins(x.out, v, j) => i < j
    BY <1>1, <1>4, <1>7 DEF NestInv
  <2>2. v \in x.visited => u \in x.visited
    BY <1>1, <1>4, <1>7 DEF NestInv
  <2>3. \A i : Ends(x.out, u, i) /\ v \in x.visited /\ Emits(tree, v) =>
          \E j : Ends(x.out, v, j) /\ j < i
    BY <1>1, <1>4, <1>7 DEF NestInv
  <2>4. ASSUME NEW k, Opens(w.stack, v, k) \/ Closes(w.stack, v, k)
        PROVE  \E j : Closes(x.stack, u, j) /\ j < k
    <3>1. PICK j : Closes(w.stack, u, j) /\ j < k
      BY <1>4, <2>4 DEF NestInv
    <3>2. j # n
      BY <1>1, <2>4, <3>1
    <3>3. QED
      BY <1>1, <3>1, <3>2
  <2>5. ASSUME NEW k \in Nat, v \in Kids(tree, S, s), n <= k
        PROVE  \E j : Closes(x.stack, u, j) /\ j < k
    <3>1. s = u \/ s \in NextBelow(tree, S, u)
      BY <1>1, <2>5, NextBelowIs
    <3>2. PICK j : Closes(w.stack, u, j) /\ j < n
      BY <1>1, <1>4, <1>7, <3>1 DEF NestInv
    <3>3. j \in Nat /\ j # n
      BY <1>1, <3>2
    <3>4. Closes(x.stack, u, j) /\ j < k
      BY <1>1, <2>5, <3>2, <3>3
    <3>5. QED
      BY <3>4
  <2>6. \A k : Opens(x.stack, v, k) \/ Closes(x.stack, v, k) =>
          \E j : Closes(x.stack, u, j) /\ j < k
    BY <1>1, <1>7, <2>4, <2>5
  <2>7. QED
    BY <2>1, <2>2, <2>3, <2>6 DEF NestInv
<1>8. QED
  BY <1>5, <1>6, <1>7

-----------------------------------------------------------------------------
(* The turn that closes one.                                               *)

LEMMA ReturnKeepsStack ==
  ASSUME NEW tree, NEW S, NEW failed, NEW w, NEW x, NEW s, NEW n, NEW m,
         Returns(failed, w, x, s, n, m), StackInv(tree, S, w)
  PROVE  StackInv(tree, S, x)
BY DEF Returns, StackInv

LEMMA ReturnKeepsReach ==
  ASSUME NEW tree, NEW S, NEW failed, NEW w, NEW x, NEW s, NEW n, NEW m,
         Returns(failed, w, x, s, n, m), ReachInv(tree, S, w)
  PROVE  ReachInv(tree, S, x)
<1>1. /\ Closes(w.stack, s, n) /\ x.visited = w.visited
      /\ \A u, k : Opens(x.stack, u, k) <=> Opens(w.stack, u, k) /\ k # n
  BY DEF Returns
<1>2. \A u : ~ Opens(w.stack, u, n)
  BY <1>1, OpeningDiffers DEF Opens, Closes
<1>3. \A u, k : Opens(x.stack, u, k) <=> Opens(w.stack, u, k)
  BY <1>1, <1>2
<1>4. Found(S, x) = Found(S, w)
  BY <1>1, <1>3 DEF Found
<1>5. QED
  BY <1>1, <1>4 DEF ReachInv

LEMMA ReturnKeepsEvents ==
  ASSUME NEW tree, NEW S, NEW failed, NEW w, NEW x, NEW s, NEW n, NEW m,
         Returns(failed, w, x, s, n, m), StackInv(tree, S, w), EventInv(tree, S, failed, w)
  PROVE  EventInv(tree, S, failed, x)
<1>1. /\ Closes(w.stack, s, n) /\ x.visited = w.visited /\ m \in Nat
      /\ \A u, k : Closes(x.stack, u, k) <=> Closes(w.stack, u, k) /\ k # n
      /\ \A u, i : Begins(w.out, u, i) \/ Ends(w.out, u, i) => i \in Nat /\ i <= m
      /\ \A u, i : Begins(x.out, u, i) <=> Begins(w.out, u, i)
      /\ \A u, i : Ends(x.out, u, i) <=> Ends(w.out, u, i) \/ (u = s /\ i = m + 1)
      /\ \A u, i : Ends(w.out, u, i) => (FailsAt(x.out, i) <=> FailsAt(w.out, i))
      /\ FailsAt(x.out, m + 1) <=> s \in failed
  BY DEF Returns
<1>2. s \in w.visited /\ Emits(tree, s) /\ \A j : Closes(w.stack, s, j) => j = n
  BY <1>1 DEF StackInv
<1>3. \A i : ~ Ends(w.out, s, i)
  BY <1>1 DEF EventInv
<1>4. ASSUME NEW u, Closes(w.stack, u, n) PROVE u = s
  BY <1>1, <1>4, ClosingDiffers DEF Closes
<1>5. \A u, i : Begins(x.out, u, i) \/ Ends(x.out, u, i) => u \in x.visited /\ Emits(tree, u)
  BY <1>1, <1>2 DEF EventInv
<1>6. ASSUME NEW u \in x.visited, Emits(tree, u)
      PROVE  /\ \E i : Begins(x.out, u, i)
             /\ (\E k : Closes(x.stack, u, k)) \/ (\E i : Ends(x.out, u, i))
  <2>1. \E i : Begins(w.out, u, i)
    BY <1>1, <1>6 DEF EventInv
  <2>2. CASE u = s
    BY <1>1, <2>1, <2>2
  <2>3. CASE u # s
    <3>1. (\E k : Closes(w.stack, u, k)) \/ (\E i : Ends(w.out, u, i))
      BY <1>1, <1>6 DEF EventInv
    <3>2. QED
      BY <1>1, <1>4, <2>1, <2>3, <3>1
  <2>4. QED
    BY <2>2, <2>3
<1>7. \A u, i, j : Begins(x.out, u, i) /\ Begins(x.out, u, j) => i = j
  BY <1>1 DEF EventInv
<1>8. \A u, i, j : Ends(x.out, u, i) /\ Ends(x.out, u, j) => i = j
  BY <1>1, <1>3 DEF EventInv
<1>9. \A u, i, j : Begins(x.out, u, i) /\ Ends(x.out, u, j) => i < j
  BY <1>1 DEF EventInv
<1>10. \A u, i, k : Ends(x.out, u, i) => ~ Closes(x.stack, u, k)
  BY <1>1, <1>2 DEF EventInv
<1>11. \A u, i : Ends(x.out, u, i) => (FailsAt(x.out, i) <=> u \in failed)
  BY <1>1 DEF EventInv
<1>12. QED
  BY <1>5, <1>6, <1>7, <1>8, <1>9, <1>10, <1>11 DEF EventInv

LEMMA ReturnKeepsNest ==
  ASSUME NEW tree, NEW S, NEW failed, NEW w, NEW x, NEW s, NEW n, NEW m,
         Returns(failed, w, x, s, n, m), StackInv(tree, S, w), EventInv(tree, S, failed, w),
         NEW u, NEW v, NestInv(tree, S, w, u, v)
  PROVE  NestInv(tree, S, x, u, v)
<1>1. /\ Closes(w.stack, s, n) /\ x.visited = w.visited /\ m \in Nat /\ n \in Nat
      /\ \A y, k : Opens(w.stack, y, k) \/ Closes(w.stack, y, k) => k \in Nat /\ k <= n
      /\ \A y, k : Closes(x.stack, y, k) <=> Closes(w.stack, y, k) /\ k # n
      /\ \A y, k : Opens(x.stack, y, k) <=> Opens(w.stack, y, k) /\ k # n
      /\ \A y, i : Begins(w.out, y, i) \/ Ends(w.out, y, i) => i \in Nat /\ i <= m
      /\ \A y, i : Begins(x.out, y, i) <=> Begins(w.out, y, i)
      /\ \A y, i : Ends(x.out, y, i) <=> Ends(w.out, y, i) \/ (y = s /\ i = m + 1)
  BY DEF Returns, Uses
<1>2. v \in x.visited => u \in x.visited
  BY <1>1 DEF NestInv
<1>3. \A i, j : Begins(x.out, u, i) /\ Begins(x.out, v, j) => i < j
  BY <1>1 DEF NestInv
<1>4. ASSUME NEW k, Opens(x.stack, v, k) \/ Closes(x.stack, v, k)
      PROVE  \E j : Closes(x.stack, u, j) /\ j < k
  <2>1. Opens(w.stack, v, k) \/ Closes(w.stack, v, k)
    BY <1>1, <1>4
  <2>2. PICK j : Closes(w.stack, u, j) /\ j < k
    BY <2>1 DEF NestInv
  <2>3. j # n
    BY <1>1, <2>1, <2>2
  <2>4. QED
    BY <1>1, <2>2, <2>3
<1>5. ASSUME NEW i, Ends(x.out, u, i), v \in x.visited, Emits(tree, v)
      PROVE  \E j : Ends(x.out, v, j) /\ j < i
  <2>1. CASE Ends(w.out, u, i)
    BY <1>1, <1>5, <2>1 DEF NestInv
  <2>2. CASE u = s /\ i = m + 1
    <3>1. ASSUME NEW k, Closes(w.stack, v, k) PROVE FALSE
      <4>1. PICK j : Closes(w.stack, s, j) /\ j < k
        BY <2>2, <3>1 DEF NestInv
      <4>2. j = n
        BY <1>1, <4>1 DEF StackInv
      <4>3. QED
        BY <1>1, <3>1, <4>1, <4>2
    <3>2. PICK j : Ends(w.out, v, j)
      BY <1>1, <1>5, <3>1 DEF EventInv
    <3>3. j < i
      BY <1>1, <2>2, <3>2
    <3>4. QED
      BY <1>1, <3>2, <3>3
  <2>3. QED
    BY <1>1, <1>5, <2>1, <2>2
<1>6. QED
  BY <1>2, <1>3, <1>4, <1>5 DEF NestInv

LEMMA TurnKeepsInv ==
  ASSUME NEW tree, NEW S, IsTrace(S), NEW failed, NEW w, WalkInv(tree, S, failed, w)
  PROVE  WalkInv(tree, S, failed, Turn(tree, S, failed, w))
<1>1. /\ WalkTypes(S, w) /\ StackInv(tree, S, w) /\ ReachInv(tree, S, w)
      /\ EventInv(tree, S, failed, w) /\ NestsInv(tree, S, w) /\ w.visited \in SUBSET S
  BY DEF WalkInv, WalkTypes
<1>2. CASE w.stack = <<>>
  BY <1>2 DEF Turn
<1>3. CASE w.stack # <<>>
  <2>1. PICK x : x = Turn(tree, S, failed, w)
    OBVIOUS
  <2>2. Unvisited(w)
    BY <1>1 DEF StackInv, Unvisited
  <2>3. /\ WalkTypes(S, x)
        /\ \E s, n, m : Descends(tree, S, w, x, s, n, m) \/ Returns(failed, w, x, s, n, m)
    BY <1>1, <1>3, <2>1, <2>2, TurnIs
  <2>4. ASSUME NEW s, NEW n, NEW m, Descends(tree, S, w, x, s, n, m)
        PROVE  WalkInv(tree, S, failed, x)
    <3>1. StackInv(tree, S, x) /\ ReachInv(tree, S, x) /\ EventInv(tree, S, failed, x)
      BY <1>1, <2>4, DescendKeepsStack, DescendKeepsReach, DescendKeepsEvents
    <3>2. NestsInv(tree, S, x)
      BY <1>1, <2>4, <3>1, DescendKeepsNest DEF NestsInv
    <3>3. QED
      BY <2>3, <3>1, <3>2 DEF WalkInv
  <2>5. ASSUME NEW s, NEW n, NEW m, Returns(failed, w, x, s, n, m)
        PROVE  WalkInv(tree, S, failed, x)
    <3>1. StackInv(tree, S, x) /\ ReachInv(tree, S, x) /\ EventInv(tree, S, failed, x)
      BY <1>1, <2>5, ReturnKeepsStack, ReturnKeepsReach, ReturnKeepsEvents
    <3>2. NestsInv(tree, S, x)
      BY <1>1, <2>5, ReturnKeepsNest DEF NestsInv
    <3>3. QED
      BY <2>3, <3>1, <3>2 DEF WalkInv
  <2>6. QED
    BY <2>1, <2>3, <2>4, <2>5
<1>4. QED
  BY <1>2, <1>3

-----------------------------------------------------------------------------
(* The walk from its first turn to its last.                               *)

LEMMA BegunInv ==
  ASSUME NEW tree, NEW S, IsTrace(S), NEW failed
  PROVE  WalkInv(tree, S, failed, Begun(tree, S))
<1>1. PICK T : T = Tops(tree, S)
  OBVIOUS
<1>2. PICK q : q = Visits(ByStart(T))
  OBVIOUS
<1>3. StartsOK(T) /\ T \subseteq S /\ Visits(Roots(tree, S)) = q
  BY <1>1, <1>2, ForestLists DEF Tops
<1>4. /\ q \in Seq(Entries(T)) /\ IsInjective(q)
      /\ \A k \in DOMAIN q : \E x \in T : q[k] = Opening(x)
      /\ \A x \in T : \E k \in DOMAIN q : q[k] = Opening(x)
  BY <1>2, <1>3, VisitsList
<1>5. PICK w : w = Begun(tree, S)
  OBVIOUS
<1>6. /\ w = [stack |-> q, visited |-> {}, out |-> <<>>]
      /\ w.stack = q /\ w.visited = {} /\ w.out = <<>>
  BY <1>3, <1>5 DEF Begun
<1>7. WalkTypes(S, w)
  <2>1. Entries(T) \subseteq Entries(S)
    BY <1>3 DEF Entries
  <2>2. q \in Seq(Entries(S))
    <3>1. q \in [1 .. Len(q) -> Entries(T)] /\ Len(q) \in Nat
      BY <1>4, LenProperties
    <3>2. q \in [1 .. Len(q) -> Entries(S)]
      BY <2>1, <3>1
    <3>3. QED
      BY <3>1, <3>2, SeqDef
  <2>3. <<>> \in Seq({})
    BY EmptySeq
  <2>4. IsWalk(w)
    BY <1>6, <2>3 DEF IsWalk
  <2>5. QED
    BY <1>6, <2>2, <2>4 DEF WalkTypes
<1>8. ASSUME NEW u, NEW k PROVE ~ Closes(w.stack, u, k)
  BY <1>4, <1>6, OpeningDiffers DEF Closes
<1>9. ASSUME NEW u, NEW k, Opens(w.stack, u, k)
      PROVE  u \in T /\ \A j : Opens(w.stack, u, j) => j = k
  <2>1. k \in DOMAIN q /\ q[k] = Opening(u)
    BY <1>6, <1>9 DEF Opens
  <2>2. u \in T
    BY <1>4, <2>1, OpeningDiffers
  <2>3. \A j : Opens(w.stack, u, j) => j = k
    BY <1>4, <1>6, <2>1 DEF Opens, IsInjective
  <2>4. QED
    BY <2>2, <2>3
<1>10. \A u \in T : \E k : Opens(w.stack, u, k)
  BY <1>4, <1>6 DEF Opens
<1>11. \A u, i : ~ Begins(w.out, u, i) /\ ~ Ends(w.out, u, i)
  BY <1>6 DEF Begins, Ends
<1>12. StackInv(tree, S, w)
  BY <1>3, <1>6, <1>8, <1>9 DEF StackInv
<1>13. Found(S, w) = T
  BY <1>3, <1>6, <1>9, <1>10 DEF Found
<1>14. ReachInv(tree, S, w)
  <2>1. T \subseteq Reachable(tree, S)
    BY <1>1, ReachableIs
  <2>2. w.visited = {}
    BY <1>6
  <2>3. QED
    BY <1>1, <1>13, <2>1, <2>2 DEF ReachInv
<1>15. EventInv(tree, S, failed, w)
  BY <1>6, <1>11 DEF EventInv
<1>16. ASSUME NEW u \in S, NEW s \in NextBelow(tree, S, u) PROVE NestInv(tree, S, w, u, s)
  <2>1. s \notin T
    BY <1>1, NextBelowIs
  <2>2. QED
    BY <1>6, <1>8, <1>9, <1>11, <2>1 DEF NestInv
<1>17. NestsInv(tree, S, w)
  BY <1>16 DEF NestsInv
<1>18. QED
  BY <1>5, <1>7, <1>12, <1>14, <1>15, <1>17 DEF WalkInv

(* Every turn visits a span or closes one.                                 *)
Ended(S, w) == {u \in S : \E i : Ends(w.out, u, i)}
Progress(S, w) == Cardinality(w.visited) + Cardinality(Ended(S, w))

LEMMA OneMore ==
  ASSUME NEW S, IsFiniteSet(S), NEW A, A \subseteq S, NEW s \in S, s \notin A
  PROVE  Cardinality(A) \in Nat /\ Cardinality(A \cup {s}) = Cardinality(A) + 1
<1>1. IsFiniteSet(A)
  BY FS_Subset
<1>2. QED
  BY <1>1, FS_AddElement, FS_CardinalityType

LEMMA TurnProgresses ==
  ASSUME NEW tree, NEW S, IsTrace(S), NEW failed, NEW w, WalkInv(tree, S, failed, w),
         w.stack # <<>>
  PROVE  Progress(S, w) \in Nat /\ Progress(S, Turn(tree, S, failed, w)) = Progress(S, w) + 1
<1>1. PICK x : x = Turn(tree, S, failed, w)
  OBVIOUS
<1>2. /\ WalkTypes(S, w) /\ StackInv(tree, S, w) /\ EventInv(tree, S, failed, w)
      /\ w.visited \subseteq S /\ IsFiniteSet(S) /\ Unvisited(w)
  BY DEF WalkInv, WalkTypes, IsTrace, StackInv, Unvisited
<1>3. \E s, n, m : Descends(tree, S, w, x, s, n, m) \/ Returns(failed, w, x, s, n, m)
  BY <1>1, <1>2, TurnIs
<1>4. PICK V : V = w.visited
  OBVIOUS
<1>5. PICK E : E = Ended(S, w)
  OBVIOUS
<1>6. V \subseteq S /\ E \subseteq S
  BY <1>2, <1>4, <1>5 DEF Ended
<1>7. Cardinality(V) \in Nat /\ Cardinality(E) \in Nat
  BY <1>2, <1>6, FS_Subset, FS_CardinalityType
<1>8. Progress(S, w) = Cardinality(V) + Cardinality(E)
  BY <1>4, <1>5 DEF Progress
<1>9. ASSUME NEW s, NEW n, NEW m, Descends(tree, S, w, x, s, n, m)
      PROVE  Progress(S, x) = Progress(S, w) + 1
  <2>1. /\ s \in S /\ x.visited = V \cup {s} /\ Opens(w.stack, s, n)
        /\ \A u, i : Ends(x.out, u, i) <=> Ends(w.out, u, i)
    BY <1>4, <1>9 DEF Descends
  <2>2. s \notin V /\ Ended(S, x) = E
    BY <1>2, <1>4, <1>5, <2>1 DEF StackInv, Ended
  <2>3. Cardinality(V \cup {s}) = Cardinality(V) + 1
    BY <1>2, <1>6, <2>1, <2>2, OneMore
  <2>4. QED
    BY <1>7, <1>8, <2>1, <2>2, <2>3 DEF Progress
<1>10. ASSUME NEW s, NEW n, NEW m, Returns(failed, w, x, s, n, m)
       PROVE  Progress(S, x) = Progress(S, w) + 1
  <2>1. /\ x.visited = V /\ Closes(w.stack, s, n)
        /\ \A u, i : Ends(x.out, u, i) <=> Ends(w.out, u, i) \/ (u = s /\ i = m + 1)
    BY <1>4, <1>10 DEF Returns
  <2>2. s \in S /\ \A i : ~ Ends(w.out, s, i)
    BY <1>2, <2>1 DEF StackInv, EventInv
  <2>3. s \notin E /\ Ended(S, x) = E \cup {s}
    BY <1>5, <2>1, <2>2 DEF Ended
  <2>4. Cardinality(E \cup {s}) = Cardinality(E) + 1
    BY <1>2, <1>6, <2>2, <2>3, OneMore
  <2>5. QED
    BY <1>7, <1>8, <2>1, <2>3, <2>4 DEF Progress
<1>11. QED
  BY <1>1, <1>3, <1>7, <1>8, <1>9, <1>10

(* Once all are visited and closed the stack is empty.                     *)
LEMMA AllDone ==
  ASSUME NEW tree, NEW S, IsTrace(S), NEW failed, NEW w, WalkInv(tree, S, failed, w),
         Progress(S, w) = 2 * Cardinality(S)
  PROVE  w.stack = <<>>
<1>1. PICK V : V = w.visited
  OBVIOUS
<1>2. PICK E : E = Ended(S, w)
  OBVIOUS
<1>3. V \subseteq S /\ E \subseteq S /\ IsFiniteSet(S)
  BY <1>1, <1>2 DEF WalkInv, WalkTypes, IsTrace, Ended
<1>4. /\ Cardinality(V) \in Nat /\ Cardinality(E) \in Nat /\ Cardinality(S) \in Nat
      /\ Cardinality(V) <= Cardinality(S) /\ Cardinality(E) <= Cardinality(S)
      /\ Cardinality(V) = Cardinality(S) => V = S
      /\ Cardinality(E) = Cardinality(S) => E = S
  BY <1>3, FS_Subset, FS_CardinalityType
<1>5. Cardinality(V) + Cardinality(E) = 2 * Cardinality(S)
  BY <1>1, <1>2 DEF Progress
<1>6. V = S /\ E = S
  BY <1>4, <1>5
<1>7. ASSUME w.stack # <<>> PROVE FALSE
  <2>1. PICK stack : stack = w.stack
    OBVIOUS
  <2>2. stack \in Seq(Entries(S)) /\ stack # <<>>
    BY <1>7, <2>1 DEF WalkInv, WalkTypes
  <2>3. PICK n : n = Len(stack)
    OBVIOUS
  <2>4. stack[n] \in Entries(S) /\ n \in DOMAIN stack
    BY <2>2, <2>3, PopFacts
  <2>5. PICK s \in S : Opens(stack, s, n) \/ Closes(stack, s, n)
    BY <2>4, EntryIs DEF Opens, Closes
  <2>6. CASE Opens(stack, s, n)
    BY <1>1, <1>6, <2>1, <2>5, <2>6 DEF WalkInv, StackInv
  <2>7. CASE Closes(stack, s, n)
    <3>1. PICK i : Ends(w.out, s, i)
      BY <1>2, <1>6, <2>5 DEF Ended
    <3>2. QED
      BY <2>1, <2>7, <3>1 DEF WalkInv, EventInv
  <2>8. QED
    BY <2>5, <2>6, <2>7
<1>8. QED
  BY <1>7

LEMMA LoopEnds ==
  ASSUME NEW tree, NEW S, IsTrace(S), NEW failed
  PROVE  \E w : /\ WalkInv(tree, S, failed, w) /\ w.stack = <<>>
                /\ Emit(tree, S, failed) = w.out
<1> DEFINE N == 2 * Cardinality(S)
           chosen == CHOOSE f : IsRun(tree, S, failed, N, f)
<1>1. N \in Nat
  BY FS_CardinalityType DEF IsTrace
<1>2. Emit(tree, S, failed) = chosen[N].out
  BY DEF Emit, IsRun, Begun
<1> HIDE DEF N
<1>3. IsRun(tree, S, failed, N, chosen)
  BY <1>1, LoopRuns
<1> HIDE DEF chosen
<1>4. \A m \in 0 .. N : chosen[m] = IF m = 0 THEN Begun(tree, S)
                                    ELSE Turn(tree, S, failed, chosen[m - 1])
  BY <1>3 DEF IsRun
<1> DEFINE Good(m) == /\ WalkInv(tree, S, failed, chosen[m])
                      /\ chosen[m].stack = <<>> \/ Progress(S, chosen[m]) = m
           T == {m \in Nat : m <= N => Good(m)}
<1>5. 0 \in T
  <2>1. chosen[0] = Begun(tree, S)
    BY <1>1, <1>4
  <2>2. Progress(S, Begun(tree, S)) = 0
    <3>1. Begun(tree, S).visited = {} /\ Begun(tree, S).out = <<>>
      BY DEF Begun
    <3>2. Ended(S, Begun(tree, S)) = {}
      BY <3>1 DEF Ended, Ends
    <3>3. QED
      BY <3>1, <3>2, FS_EmptySet DEF Progress
  <2>3. QED
    BY <2>1, <2>2, BegunInv
<1>6. ASSUME NEW m \in T PROVE m + 1 \in T
  <2> SUFFICES ASSUME m + 1 <= N PROVE Good(m + 1)
    OBVIOUS
  <2>1. m \in Nat /\ m <= N /\ m + 1 \in 0 .. N /\ m + 1 # 0 /\ m + 1 - 1 = m
    BY <1>1
  <2>2. Good(m)
    BY <2>1
  <2>3. chosen[m + 1] = Turn(tree, S, failed, chosen[m])
    BY <1>4, <2>1
  <2>4. PICK w : w = chosen[m]
    OBVIOUS
  <2>5. WalkInv(tree, S, failed, w) /\ (w.stack = <<>> \/ Progress(S, w) = m)
    BY <2>2, <2>4
  <2>6. PICK x : x = Turn(tree, S, failed, w)
    OBVIOUS
  <2>7. WalkInv(tree, S, failed, x)
    BY <2>5, <2>6, TurnKeepsInv
  <2>8. x.stack = <<>> \/ Progress(S, x) = m + 1
    <3>1. CASE w.stack = <<>>
      BY <2>6, <3>1 DEF Turn
    <3>2. CASE w.stack # <<>>
      BY <2>5, <2>6, <3>2, TurnProgresses
    <3>3. QED
      BY <3>1, <3>2
  <2>9. QED
    BY <2>3, <2>4, <2>6, <2>7, <2>8
<1>7. T = Nat
  <2> HIDE DEF T
  <2>1. T \in SUBSET Nat
    BY DEF T
  <2>2. QED
    BY <1>5, <1>6, <2>1, SetInduction
<1>8. Good(N)
  BY <1>1, <1>7
<1>9. chosen[N].stack = <<>>
  BY <1>8, AllDone DEF N
<1>10. QED
  BY <1>2, <1>8, <1>9

(* So the events are a nesting.                                            *)
Nested(tree, S, failed, out) ==
  /\ \A u, i : Begins(out, u, i) \/ Ends(out, u, i) =>
       u \in Reachable(tree, S) /\ Emits(tree, u)
  /\ \A u \in Reachable(tree, S) : Emits(tree, u) =>
       \E i, j : /\ i < j
                 /\ \A k : (Begins(out, u, k) <=> k = i) /\ (Ends(out, u, k) <=> k = j)
                 /\ FailsAt(out, j) <=> u \in failed
  /\ \A u, s \in Reachable(tree, S) :
       Emits(tree, u) /\ Emits(tree, s) /\ s \in NextBelow(tree, S, u) =>
         /\ \A i, j : Begins(out, u, i) /\ Begins(out, s, j) => i < j
         /\ \A i, j : Ends(out, s, i) /\ Ends(out, u, j) => i < j

LEMMA EmitNests ==
  ASSUME NEW tree, NEW S, IsTrace(S), NEW failed
  PROVE  Nested(tree, S, failed, Emit(tree, S, failed))
<1>1. PICK w : /\ WalkInv(tree, S, failed, w) /\ w.stack = <<>>
               /\ Emit(tree, S, failed) = w.out
  BY LoopEnds
<1>2. PICK R : R = Reachable(tree, S)
  OBVIOUS
<1>3. /\ WalkTypes(S, w) /\ ReachInv(tree, S, w) /\ EventInv(tree, S, failed, w)
      /\ NestsInv(tree, S, w) /\ w.visited \in SUBSET S
  BY <1>1 DEF WalkInv, WalkTypes
<1>4. \A u, k : ~ Opens(w.stack, u, k) /\ ~ Closes(w.stack, u, k)
  BY <1>1 DEF Opens, Closes
<1>5. Found(S, w) = w.visited
  BY <1>4 DEF Found
<1>6. w.visited = R
  <2>1. /\ Tops(tree, S) \subseteq w.visited
        /\ \A p \in w.visited : Kids(tree, S, p) \subseteq w.visited
        /\ w.visited \subseteq R
    BY <1>2, <1>3, <1>5 DEF ReachInv
  <2>2. R \subseteq w.visited
    BY <1>2, <1>3, <2>1, ReachableIs
  <2>3. QED
    BY <2>1, <2>2
<1>7. \A u, i : Begins(w.out, u, i) \/ Ends(w.out, u, i) => u \in R /\ Emits(tree, u)
  BY <1>3, <1>6 DEF EventInv
<1>8. ASSUME NEW u \in R, Emits(tree, u)
      PROVE  \E i, j : /\ i < j
                       /\ \A k : (Begins(w.out, u, k) <=> k = i) /\ (Ends(w.out, u, k) <=> k = j)
                       /\ FailsAt(w.out, j) <=> u \in failed
  <2>1. PICK i : Begins(w.out, u, i)
    BY <1>3, <1>6, <1>8 DEF EventInv
  <2>2. PICK j : Ends(w.out, u, j)
    BY <1>3, <1>4, <1>6, <1>8 DEF EventInv
  <2>3. /\ i < j
        /\ \A k : (Begins(w.out, u, k) <=> k = i) /\ (Ends(w.out, u, k) <=> k = j)
        /\ FailsAt(w.out, j) <=> u \in failed
    BY <1>3, <2>1, <2>2 DEF EventInv
  <2>4. QED
    BY <2>3
<1>9. ASSUME NEW u \in R, NEW s \in R, Emits(tree, u), Emits(tree, s), s \in NextBelow(tree, S, u)
      PROVE  /\ \A i, j : Begins(w.out, u, i) /\ Begins(w.out, s, j) => i < j
             /\ \A i, j : Ends(w.out, s, i) /\ Ends(w.out, u, j) => i < j
  <2>1. NestInv(tree, S, w, u, s)
    BY <1>3, <1>6, <1>9 DEF NestsInv
  <2>2. \A i, j : Begins(w.out, u, i) /\ Begins(w.out, s, j) => i < j
    BY <2>1 DEF NestInv
  <2>3. ASSUME NEW i, NEW j, Ends(w.out, s, i), Ends(w.out, u, j) PROVE i < j
    <3>1. PICK k : Ends(w.out, s, k) /\ k < j
      BY <1>6, <1>9, <2>1, <2>3 DEF NestInv
    <3>2. k = i
      BY <1>3, <2>3, <3>1 DEF EventInv
    <3>3. QED
      BY <3>1, <3>2
  <2>4. QED
    BY <2>2, <2>3
<1>10. QED
  BY <1>1, <1>2, <1>7, <1>8, <1>9 DEF Nested

LEMMA SpansAreTrace ==
  ASSUME NEW copies \in Seq(Copy), NEW t
  PROVE  IsTrace(SpansIn(copies, t))
<1>1. \A i \in DOMAIN copies : copies[i].span \in Span
  <2>1. DOMAIN copies = 1 .. Len(copies)
    BY LenProperties
  <2>2. \A i \in 1 .. Len(copies) : copies[i] \in Copy
    BY ElementOfSeq
  <2>3. QED
    BY <2>1, <2>2 DEF Copy
<1>2. SpansIn(copies, t) \subseteq Span
  BY <1>1 DEF SpansIn, SpansOf
<1>3. QED
  BY <1>2, SpansAreFinite DEF IsTrace

LEMMA TraceNests ==
  ASSUME NEW tree, NEW copies \in Seq(Copy), NEW t
  PROVE  Nested(tree, SpansIn(copies, t), Failed(copies, t), TraceEvents(tree, copies, t))
<1>1. PICK S : S = SpansIn(copies, t)
  OBVIOUS
<1>2. PICK failed : failed = Failed(copies, t)
  OBVIOUS
<1>3. PICK out : out = Emit(tree, S, failed)
  OBVIOUS
<1>4. Nested(tree, S, failed, out)
  BY <1>1, <1>3, EmitNests, SpansAreTrace
<1>5. PICK events : events = TraceEvents(tree, copies, t)
  OBVIOUS
<1>6. events = [i \in DOMAIN out |->
                  [run |-> RunIdOf[t], seq |-> i - 1, span |-> out[i].span,
                   step |-> out[i].step, part |-> out[i].part]]
  BY <1>1, <1>2, <1>3, <1>5 DEF TraceEvents
<1>7. /\ DOMAIN events = DOMAIN out
      /\ \A i \in DOMAIN out : events[i].span = out[i].span /\ events[i].part = out[i].part
  BY <1>6
<1>8. \A u, i : /\ Begins(events, u, i) <=> Begins(out, u, i)
                /\ Ends(events, u, i) <=> Ends(out, u, i)
  BY <1>7 DEF Begins, Ends
<1>9. \A u, i : Ends(out, u, i) => (FailsAt(events, i) <=> FailsAt(out, i))
  BY <1>7 DEF Ends, FailsAt
<1>10. ASSUME NEW u \in Reachable(tree, S), Emits(tree, u)
       PROVE  \E i, j : /\ i < j
                        /\ \A k : (Begins(events, u, k) <=> k = i) /\ (Ends(events, u, k) <=> k = j)
                        /\ FailsAt(events, j) <=> u \in failed
  <2>1. PICK i, j : /\ i < j
                    /\ \A k : (Begins(out, u, k) <=> k = i) /\ (Ends(out, u, k) <=> k = j)
                    /\ FailsAt(out, j) <=> u \in failed
    BY <1>4, <1>10 DEF Nested
  <2>2. Ends(out, u, j)
    BY <2>1
  <2>3. FailsAt(events, j) <=> u \in failed
    BY <1>9, <2>1, <2>2
  <2>4. QED
    BY <1>8, <2>1, <2>3
<1>11. Nested(tree, S, failed, events)
  BY <1>4, <1>8, <1>10 DEF Nested
<1>12. QED
  BY <1>1, <1>2, <1>5, <1>11

-----------------------------------------------------------------------------
(* What the runs check.                                                    *)

(* No event of a run is in the file twice, and a stored run has no gap:    *)
(* for any files, calls, commits and deaths of the process, but for the    *)
(* runs that a death left out of the table of runs.                        *)
THEOREM NoRowTwice == Spec => []NoDuplicateRows
<1>1. IngestInv => NoDuplicateRows
  <2> DEFINE E == EventsIn(shape, files)
  <2> SUFFICES ASSUME IngestInv, NEW r, r \notin torn PROVE NumberedOnce(r)
    BY DEF NoDuplicateRows
  <2>1. rows \in Seq(E) /\ buffer \in Seq(E)
    BY DEF IngestInv, IngestTypes
  <2>2. InSequence(OfRun(rows \o buffer, r))
    BY DEF IngestInv, NumbersInv, Recorded
  <2> HIDE DEF E
  <2>3. InSequence(OfRun(rows, r))
    BY <2>1, <2>2, SequencePrefix
  <2>4. OfRun(rows, r) \in Seq(E)
    BY <2>1, OfRunType
  <2>5. DOMAIN OfRun(rows, r) = 1 .. Len(OfRun(rows, r))
    BY <2>4, LenProperties
  <2>6. QED
    BY <2>3, <2>5 DEF NumberedOnce, InSequence
<1>2. QED
  BY <1>1, IngestInvHolds, PTL

(* When a call ends, every run it prints is listed, and its rows are       *)
(* exactly the events of its summary, in their order; of a torn run they   *)
(* are the last.                                                           *)
THEOREM SummariesAreStored == Spec => []PrintedIsStored
<1>1. IngestInv => PrintedIsStored
  <2> SUFFICES ASSUME IngestInv, pc = "closed" PROVE PrintedIsStored
    BY DEF PrintedIsStored
  <2>1. rows \in Seq(EventsIn(shape, files)) /\ buffer = <<>>
    BY DEF IngestInv, IngestTypes
  <2>2. Recorded = rows
    BY <2>1, ConcatEmptySeq DEF Recorded
  <2>3. ASSUME NEW x \in ingested
        PROVE  LET stored == OfRun(rows, x.run)
                   before == Len(stored) - x.count
               IN  /\ x.run \in listed
                   /\ SubSeq(stored, before + 1, Len(stored)) = x.events
                   /\ x.run \notin torn => before = 0
    <3> DEFINE stored == OfRun(rows, x.run)
    <3>1. /\ x.count = Len(x.events) /\ EndsWith(stored, x.events)
          /\ x.run \notin torn => stored = x.events
          /\ x.events \in Seq(EventsIn(shape, files))
      BY <2>2 DEF IngestInv, PrintedInv
    <3>2. x.run \in Printed /\ Printed \subseteq existing /\ existing \subseteq listed
      BY DEF IngestInv, KnownInv, Printed
    <3> HIDE DEF stored
    <3>3. Left(stored, Len(stored) - x.count) = x.events
      BY <3>1 DEF EndsWith
    <3>4. x.run \notin torn => Len(stored) - x.count = 0
      BY <3>1, LenProperties
    <3>5. QED
      BY <3>2, <3>3, <3>4 DEF Left, stored
  <2>4. QED
    BY <2>3 DEF PrintedIsStored
<1>2. QED
  BY <1>1, IngestInvHolds, PTL

(* When a call ends, every trace of its files that has something to record *)
(* has its run in the table of runs: what was skipped was there, also when *)
(* another file of the same call had brought it.                           *)
THEOREM NoTraceLost == Spec => []EveryTraceStored
<1>1. IngestInv => EveryTraceStored
  <2> SUFFICES ASSUME IngestInv, pc = "closed", NEW f \in asked,
                      NEW t \in ToSet(TracesOf(files[f])),
                      TraceEvents(shape, files[f], t) # <<>>
               PROVE  RunIdOf[t] \in listed
    BY DEF EveryTraceStored
  <2>1. RunIdOf[t] \in existing \cup Printed
    BY DEF IngestInv, CoveredInv
  <2>2. Printed \subseteq existing /\ existing \subseteq listed
    BY DEF IngestInv, KnownInv
  <2>3. QED
    BY <2>1, <2>2
<1>2. QED
  BY <1>1, IngestInvHolds, PTL

(* Two files whose copies that end last are the same give every trace the  *)
(* same events, whatever order, repetition or truncation they arrived in.  *)
THEOREM WalkIsCanonical == Spec => []Canonical
<1>1. IngestInv => Canonical
  <2> SUFFICES ASSUME IngestInv, NEW f \in DOMAIN files, NEW g \in DOMAIN files, NEW t,
                      MostComplete(files[f]) = MostComplete(files[g]),
                      Unanimous(MostComplete(files[f]))
               PROVE  TraceEvents(shape, files[f], t) = TraceEvents(shape, files[g], t)
    BY DEF Canonical
  <2>1. files[f] \in Seq(Copy) /\ files[g] \in Seq(Copy)
    BY DEF IngestInv, IngestTypes, FilesOK
  <2>2. QED
    BY <2>1, EventsAreCanonical
<1>2. QED
  BY <1>1, IngestInvHolds, PTL

(* In every trace of the file being read, whatever its trees: the events   *)
(* are exactly the starts and the closes of the GenAI spans that a root    *)
(* leads to, each once and nested as the spans are, and a close is an      *)
(* error as the most complete copy has it.                                 *)
THEOREM WalkNests == Spec => []WellNested
<1>1. IngestInv => WellNested
  <2> SUFFICES ASSUME IngestInv, pc = "recording", NEW t \in ToSet(todo)
               PROVE  LET copies == files[Head(args)]
                          S == SpansIn(copies, t)
                          events == EventsOf(t)
                          At(s, starting) == {i \in DOMAIN events :
                            events[i].span = s /\ (events[i].part = "start") = starting}
                          emitting == {s \in Reachable(shape, S) : StepOf(shape, s) # "none"}
                      IN
                      /\ \A i \in DOMAIN events : events[i].span \in emitting
                      /\ \A s \in emitting : \E i, j \in DOMAIN events :
                           /\ i < j /\ At(s, TRUE) = {i} /\ At(s, FALSE) = {j}
                           /\ \E c \in MostComplete(copies) :
                                c.span = s /\ (c.error <=> events[j].part = "error")
                      /\ \A u \in emitting : \A s \in emitting \cap NextBelow(shape, S, u) :
                           /\ \A i \in At(u, TRUE), j \in At(s, TRUE) : i < j
                           /\ \A i \in At(s, FALSE), j \in At(u, FALSE) : i < j
    BY DEF WellNested
  <2> DEFINE copies == files[Head(args)]
             S == SpansIn(copies, t)
             failed == Failed(copies, t)
             events == EventsOf(t)
             emitting == {s \in Reachable(shape, S) : StepOf(shape, s) # "none"}
             At(s, starting) == {i \in DOMAIN events :
               events[i].span = s /\ (events[i].part = "start") = starting}
  <2> HIDE DEF copies, S, failed, events, emitting
  <2>1. copies \in Seq(Copy)
    <3>1. args \in Seq(DOMAIN files) /\ args # <<>> /\ FilesOK(files)
      BY DEF IngestInv, IngestTypes
    <3>2. Head(args) \in DOMAIN files
      BY <3>1, HeadTailProperties
    <3>3. QED
      BY <3>1, <3>2 DEF FilesOK, copies
  <2>2. Nested(shape, S, failed, events)
    BY <2>1, TraceNests DEF EventsOf, S, failed, events, copies
  <2>3. IsTrace(S) /\ Reachable(shape, S) \subseteq S
    BY <2>1, SpansAreTrace, ReachableIs DEF S
  <2>4. \A s : s \in emitting <=> s \in Reachable(shape, S) /\ Emits(shape, s)
    BY DEF Emits, emitting
  <2>5. \A s, i : /\ i \in At(s, TRUE) <=> Begins(events, s, i)
                  /\ i \in At(s, FALSE) <=> Ends(events, s, i)
    BY DEF Begins, Ends
  <2> HIDE DEF At
  <2>6. ASSUME NEW i \in DOMAIN events PROVE events[i].span \in emitting
    <3>1. Begins(events, events[i].span, i) \/ Ends(events, events[i].span, i)
      BY DEF Begins, Ends
    <3>2. QED
      BY <2>2, <2>4, <3>1 DEF Nested
  <2>7. ASSUME NEW s \in emitting
        PROVE  \E i, j \in DOMAIN events :
                 /\ i < j /\ At(s, TRUE) = {i} /\ At(s, FALSE) = {j}
                 /\ \E c \in MostComplete(copies) :
                      c.span = s /\ (c.error <=> events[j].part = "error")
    <3>1. s \in Reachable(shape, S) /\ Emits(shape, s) /\ s \in S
      BY <2>3, <2>4
    <3>2. PICK i, j : /\ i < j
                      /\ \A k : (Begins(events, s, k) <=> k = i) /\ (Ends(events, s, k) <=> k = j)
                      /\ FailsAt(events, j) <=> s \in failed
      BY <2>2, <3>1 DEF Nested
    <3>3. At(s, TRUE) = {i} /\ At(s, FALSE) = {j}
      BY <2>5, <3>2
    <3>4. i \in DOMAIN events /\ j \in DOMAIN events
      BY <3>2 DEF Begins, Ends
    <3>5. PICK c : c = KeptCopy(copies, s)
      OBVIOUS
    <3>6. c \in MostComplete(copies) /\ c.span = s
      <4>1. s \in SpansOf(copies)
        BY <3>1 DEF SpansIn, S
      <4>2. QED
        BY <2>1, <3>5, <4>1, KeptIsMostComplete
    <3>7. s \in failed <=> c.error
      BY <3>1, <3>5 DEF Failed, failed, S
    <3>8. c.error <=> events[j].part = "error"
      BY <3>2, <3>7 DEF FailsAt
    <3>9. QED
      BY <3>2, <3>3, <3>4, <3>6, <3>8
  <2>8. ASSUME NEW u \in emitting, NEW s \in emitting \cap NextBelow(shape, S, u)
        PROVE  /\ \A i \in At(u, TRUE), j \in At(s, TRUE) : i < j
               /\ \A i \in At(s, FALSE), j \in At(u, FALSE) : i < j
    BY <2>2, <2>4, <2>5 DEF Nested
  <2>9. QED
    BY <2>6, <2>7, <2>8 DEF At, emitting, events, S, copies
<1>2. QED
  BY <1>1, IngestInvHolds, PTL
=============================================================================
