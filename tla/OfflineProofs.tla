----------------------------- MODULE OfflineProofs -----------------------------
(***************************************************************************)
(* Proofs about the work on recorded runs.  The regression gate, for every *)
(* pair of runs: the greedy matcher of Alignment, the verdict that is      *)
(* drawn from its bindings, and the two places where a committed baseline  *)
(* meets it, dpk gate (Baseline) and the golden_trace fixture              *)
(* (GoldenTrace).  Attestation, for every trace: what is signed, and what  *)
(* a signature binds (Signing).                                            *)
(***************************************************************************)
EXTENDS Comparison, Signing, Baseline, GoldenTrace, SequenceFacts, FiniteSetTheorems

-----------------------------------------------------------------------------
(* Pairs, and the best of finitely many.                                   *)

IsPair(x) ==
  /\ x = [score |-> x.score, base |-> x.base, comp |-> x.comp]
  /\ x.score \in Int /\ x.base \in Int /\ x.comp \in Int

IsBest(S, x) == x \in S /\ \A y \in S \ {x} : Precedes(x, y)

LEMMA PrecedesTotal ==
  ASSUME NEW x, NEW y, IsPair(x), IsPair(y), x # y
  PROVE  Precedes(x, y) \/ Precedes(y, x)
<1>1. ~ (x.score = y.score /\ x.base = y.base /\ x.comp = y.comp)
  BY DEF IsPair
<1>2. QED
  BY <1>1 DEF IsPair, Precedes

LEMMA PrecedesTransitive ==
  ASSUME NEW x, NEW y, NEW z, IsPair(x), IsPair(y), IsPair(z),
         Precedes(x, y), Precedes(y, z)
  PROVE  Precedes(x, z)
BY DEF IsPair, Precedes

LEMMA BestExists ==
  ASSUME NEW P, IsFiniteSet(P), \A x \in P : IsPair(x), P # {}
  PROVE  \E x : IsBest(P, x)
<1> DEFINE T == {n \in Nat : \A S \in SUBSET P :
                    Cardinality(S) = n /\ S # {} => \E x : IsBest(S, x)}
<1>1. \A S \in SUBSET P : IsFiniteSet(S) /\ Cardinality(S) \in Nat
  BY FS_Subset, FS_CardinalityType
<1>2. 0 \in T
  BY <1>1, FS_EmptySet
<1>3. ASSUME NEW n \in T PROVE n + 1 \in T
  <2>1. n \in Nat
    OBVIOUS
  <2> SUFFICES ASSUME NEW S \in SUBSET P, Cardinality(S) = n + 1, S # {}
               PROVE  \E x : IsBest(S, x)
    BY <2>1
  <2>2. PICK a : a \in S
    OBVIOUS
  <2>3. S \ {a} \in SUBSET P /\ Cardinality(S \ {a}) = n
    <3>1. IsFiniteSet(S)
      BY <1>1
    <3>2. Cardinality(S \ {a}) = Cardinality(S) - 1
      BY <2>2, <3>1, FS_RemoveElement
    <3>3. QED
      BY <2>1, <3>2
  <2>4. CASE S \ {a} = {}
    BY <2>2, <2>4 DEF IsBest
  <2>5. CASE S \ {a} # {}
    <3>1. PICK x : IsBest(S \ {a}, x)
      BY <2>3, <2>5
    <3>2. x \in S /\ x # a /\ \A y \in S \ {a, x} : Precedes(x, y)
      BY <3>1 DEF IsBest
    <3>3. \A y \in S : IsPair(y)
      OBVIOUS
    <3>4. CASE Precedes(x, a)
      BY <3>2, <3>4 DEF IsBest
    <3>5. CASE Precedes(a, x)
      <4>1. ASSUME NEW y \in S \ {a} PROVE Precedes(a, y)
        <5>1. CASE y = x
          BY <3>5, <5>1
        <5>2. CASE y # x
          <6>1. Precedes(x, y)
            BY <3>2, <5>2
          <6>2. QED
            BY <2>2, <3>2, <3>3, <3>5, <6>1, PrecedesTransitive
        <5>3. QED
          BY <5>1, <5>2
      <4>2. QED
        BY <2>2, <4>1 DEF IsBest
    <3>6. QED
      BY <2>2, <3>2, <3>3, <3>4, <3>5, PrecedesTotal
  <2>6. QED
    BY <2>4, <2>5
<1>4. T = Nat
  <2> HIDE DEF T
  <2>1. T \in SUBSET Nat
    BY DEF T
  <2>2. QED
    BY <1>2, <1>3, <2>1, SetInduction
<1>5. QED
  BY <1>1, <1>4

LEMMA BestIsBest ==
  ASSUME NEW P, IsFiniteSet(P), \A x \in P : IsPair(x), P # {}
  PROVE  IsBest(P, Best(P))
<1>1. \E x \in P : \A y \in P \ {x} : Precedes(x, y)
  BY BestExists DEF IsBest
<1>2. QED
  BY <1>1 DEF Best, IsBest

-----------------------------------------------------------------------------
(* The greedy matcher.  What is bound is apart, and whatever was not bound *)
(* gave way to a binding that precedes it.                                 *)

Greedy(P, w) ==
  /\ w = [left |-> w.left, bound |-> w.bound]
  /\ w.left \subseteq P /\ w.bound \subseteq P
  /\ \A x, y \in w.bound : Conflict(x, y) => x = y
  /\ \A x \in w.left, y \in w.bound : ~ Conflict(x, y)
  /\ \A x \in P \ w.left : \E y \in w.bound : x = y \/ (Conflict(x, y) /\ Precedes(y, x))

LEMMA BindKeeps ==
  ASSUME NEW P, IsFiniteSet(P), \A x \in P : IsPair(x), NEW w, Greedy(P, w)
  PROVE  /\ Greedy(P, Bind(w))
         /\ w.left # {} => Cardinality(Bind(w).left) < Cardinality(w.left)
<1>1. CASE w.left = {}
  BY <1>1 DEF Bind
<1>2. CASE w.left # {}
  <2> DEFINE b == Best(w.left)
             rest == {x \in w.left : ~ Conflict(x, b)}
             v == [left |-> rest, bound |-> w.bound \cup {b}]
  <2>1. /\ w.left \subseteq P /\ w.bound \subseteq P
        /\ \A x, y \in w.bound : Conflict(x, y) => x = y
        /\ \A x \in w.left, y \in w.bound : ~ Conflict(x, y)
        /\ \A x \in P \ w.left : \E y \in w.bound : x = y \/ (Conflict(x, y) /\ Precedes(y, x))
    BY DEF Greedy
  <2>2. IsFiniteSet(w.left) /\ Cardinality(w.left) \in Nat
    BY <2>1, FS_Subset, FS_CardinalityType
  <2>3. IsBest(w.left, b)
    BY <1>2, <2>1, <2>2, BestIsBest
  <2>4. Bind(w) = v
    BY <1>2 DEF Bind
  <2> HIDE DEF b
  <2>5. b \in w.left /\ b \in P /\ \A x \in w.left \ {b} : Precedes(b, x)
    BY <2>1, <2>3 DEF IsBest
  <2>6. \A x, y : Conflict(x, y) <=> Conflict(y, x)
    BY DEF Conflict
  <2>7. \A x : Conflict(x, x)
    BY DEF Conflict
  <2>8. rest \subseteq w.left \ {b}
    BY <2>7
  <2>9. ASSUME NEW x \in P \ rest
        PROVE  \E y \in w.bound \cup {b} : x = y \/ (Conflict(x, y) /\ Precedes(y, x))
    <3>1. CASE x \in P \ w.left
      BY <2>1, <3>1
    <3>2. CASE x \in w.left
      <4>1. Conflict(x, b)
        BY <3>2
      <4>2. QED
        BY <2>5, <3>2, <4>1
    <3>3. QED
      BY <3>1, <3>2
  <2>10. \A x, y \in w.bound \cup {b} : Conflict(x, y) => x = y
    BY <2>1, <2>5, <2>6
  <2>11. \A x \in rest, y \in w.bound \cup {b} : ~ Conflict(x, y)
    BY <2>1
  <2>12. rest \subseteq P /\ w.bound \cup {b} \subseteq P
    BY <2>1, <2>5
  <2>13. Cardinality(rest) < Cardinality(w.left)
    <3>1. IsFiniteSet(w.left \ {b}) /\ Cardinality(w.left \ {b}) = Cardinality(w.left) - 1
      BY <2>2, <2>5, FS_RemoveElement
    <3>2. Cardinality(rest) <= Cardinality(w.left \ {b}) /\ Cardinality(rest) \in Nat
      BY <2>8, <3>1, FS_Subset, FS_CardinalityType
    <3>3. QED
      BY <2>2, <3>1, <3>2
  <2>14. Greedy(P, v)
    <3> HIDE DEF rest
    <3>1. QED
      BY <2>9, <2>10, <2>11, <2>12 DEF Greedy
  <2>15. QED
    BY <2>4, <2>13, <2>14
<1>3. QED
  BY <1>1, <1>2

(* The states of the matcher after each of its first n bindings.           *)
IsMatching(P, n, f) ==
  f = [m \in 0 .. n |-> IF m = 0 THEN [left |-> P, bound |-> {}] ELSE Bind(f[m - 1])]

LEMMA MatchingExists ==
  ASSUME NEW P, NEW n \in Nat
  PROVE  \E f : IsMatching(P, n, f)
<1> DEFINE Begin == [left |-> P, bound |-> {}]
           T == {k \in Nat : \E f : IsMatching(P, k, f)}
<1>1. 0 \in T
  <2> DEFINE f == [m \in 0 .. 0 |-> Begin]
  <2>1. f = [m \in 0 .. 0 |-> IF m = 0 THEN Begin ELSE Bind(f[m - 1])]
    OBVIOUS
  <2> HIDE DEF f
  <2>2. IsMatching(P, 0, f)
    BY <2>1 DEF IsMatching
  <2>3. QED
    BY <2>2
<1>2. ASSUME NEW k \in T PROVE k + 1 \in T
  <2>1. PICK f : IsMatching(P, k, f)
    OBVIOUS
  <2> DEFINE g == [m \in 0 .. k + 1 |-> IF m = k + 1 THEN Bind(f[k]) ELSE f[m]]
  <2>2. \A m \in 0 .. k : f[m] = IF m = 0 THEN Begin ELSE Bind(f[m - 1])
    BY <2>1 DEF IsMatching
  <2>3. ASSUME NEW m \in 0 .. k + 1
        PROVE  g[m] = IF m = 0 THEN Begin ELSE Bind(g[m - 1])
    <3>1. CASE m = k + 1
      <4>1. m # 0 /\ m - 1 = k /\ k \in 0 .. k + 1 /\ k # k + 1
        BY <3>1
      <4>2. g[m] = Bind(f[k]) /\ g[k] = f[k]
        BY <3>1, <4>1
      <4>3. QED
        BY <4>1, <4>2
    <3>2. CASE m # k + 1
      <4>1. m \in 0 .. k /\ (m # 0 => m - 1 \in 0 .. k + 1 /\ m - 1 # k + 1)
        BY <3>2
      <4>2. g[m] = f[m] /\ (m # 0 => g[m - 1] = f[m - 1])
        BY <3>2, <4>1
      <4>3. QED
        BY <2>2, <4>1, <4>2
    <3>3. QED
      BY <3>1, <3>2
  <2>4. g = [m \in 0 .. k + 1 |-> g[m]]
    OBVIOUS
  <2> HIDE DEF g
  <2>5. IsMatching(P, k + 1, g)
    BY <2>3, <2>4 DEF IsMatching
  <2>6. QED
    BY <2>5
<1>3. T = Nat
  <2> HIDE DEF T
  <2>1. T \in SUBSET Nat
    BY DEF T
  <2>2. QED
    BY <1>1, <1>2, <2>1, SetInduction
<1>4. QED
  BY <1>3

(* The pairs that are bound: apart, and stable.                            *)
LEMMA AssignIsGreedy ==
  ASSUME NEW P, IsFiniteSet(P), \A x \in P : IsPair(x)
  PROVE  /\ Assign(P) \subseteq P
         /\ \A x, y \in Assign(P) : Conflict(x, y) => x = y
         /\ \A x \in P : \E y \in Assign(P) :
              x = y \/ (Conflict(x, y) /\ Precedes(y, x))
<1> DEFINE N == Cardinality(P)
           after == CHOOSE f : IsMatching(P, N, f)
<1>1. N \in Nat
  BY FS_CardinalityType
<1>2. IsMatching(P, N, after)
  BY <1>1, MatchingExists
<1>3. Assign(P) = after[N].bound
  BY DEF Assign, IsMatching
<1> HIDE DEF after
<1>4. \A m \in 0 .. N :
        after[m] = IF m = 0 THEN [left |-> P, bound |-> {}] ELSE Bind(after[m - 1])
  BY <1>2 DEF IsMatching
<1> DEFINE T == {n \in Nat : n <= N =>
                    /\ Greedy(P, after[n])
                    /\ Cardinality(after[n].left) <= N - n}
<1>5. 0 \in T
  <2>1. after[0] = [left |-> P, bound |-> {}]
    <3>1. 0 \in 0 .. N
      BY <1>1
    <3> HIDE DEF N, T
    <3>2. QED
      BY <1>4, <3>1
  <2>2. Greedy(P, after[0])
    BY <2>1 DEF Greedy
  <2>3. QED
    BY <1>1, <2>1, <2>2
<1>6. ASSUME NEW n \in T PROVE n + 1 \in T
  <2>1. n \in Nat
    OBVIOUS
  <2> SUFFICES ASSUME n + 1 <= N
               PROVE  /\ Greedy(P, after[n + 1])
                      /\ Cardinality(after[n + 1].left) <= N - (n + 1)
    BY <2>1
  <2>2. Greedy(P, after[n]) /\ Cardinality(after[n].left) <= N - n
    BY <1>1, <2>1
  <2>3. after[n + 1] = Bind(after[n])
    BY <1>1, <1>4, <2>1
  <2>4. Greedy(P, Bind(after[n]))
    BY <2>2, BindKeeps
  <2>5. Cardinality(Bind(after[n]).left) <= N - (n + 1)
    <3>1. CASE after[n].left = {}
      <4>1. Cardinality(Bind(after[n]).left) = 0
        BY <3>1, FS_EmptySet DEF Bind
      <4>2. QED
        BY <1>1, <2>1, <4>1
    <3>2. CASE after[n].left # {}
      <4>1. Cardinality(Bind(after[n]).left) < Cardinality(after[n].left)
        BY <2>2, <3>2, BindKeeps
      <4>2. Bind(after[n]).left \subseteq P /\ after[n].left \subseteq P
        BY <2>2, <2>4 DEF Greedy
      <4>3. Cardinality(Bind(after[n]).left) \in Nat /\ Cardinality(after[n].left) \in Nat
        BY <4>2, FS_Subset, FS_CardinalityType
      <4>4. QED
        BY <1>1, <2>1, <2>2, <4>1, <4>3
    <3>3. QED
      BY <3>1, <3>2
  <2>6. QED
    BY <2>3, <2>4, <2>5
<1>7. T = Nat
  <2> HIDE DEF T
  <2>1. T \in SUBSET Nat
    BY DEF T
  <2>2. QED
    BY <1>5, <1>6, <2>1, SetInduction
<1>8. Greedy(P, after[N]) /\ Cardinality(after[N].left) <= 0
  <2>1. N \in T
    BY <1>1, <1>7
  <2>2. QED
    BY <1>1, <2>1
<1>9. after[N].left = {}
  <2>1. after[N].left \subseteq P
    BY <1>8 DEF Greedy
  <2>2. IsFiniteSet(after[N].left) /\ Cardinality(after[N].left) \in Nat
    BY <2>1, FS_Subset, FS_CardinalityType
  <2>3. QED
    BY <1>8, <2>2, FS_EmptySet
<1>10. QED
  BY <1>3, <1>8, <1>9 DEF Greedy

-----------------------------------------------------------------------------
(* Scores under the two profiles of the gate.                              *)

GateProfile == {StrictAudit, DeveloperDebug}

LEMMA MaxWithZero ==
  ASSUME NEW n \in Int
  PROVE  Max({0, n}) = IF n > 0 THEN n ELSE 0
<1> DEFINE m == IF n > 0 THEN n ELSE 0
<1>1. m \in {0, n} /\ \A y \in {0, n} : m >= y
  OBVIOUS
<1>2. \A x \in {0, n} : (\A y \in {0, n} : x >= y) => x = m
  OBVIOUS
<1>3. QED
  BY <1>1, <1>2 DEF Max

IsScore(n) == n \in Nat /\ n <= 1000

LEMMA StrictScore ==
  ASSUME NEW golden, NEW candidate, NEW i \in Nat, NEW j \in Nat
  PROVE  /\ IsScore(ScoreMatch(StrictAudit, golden, candidate, i, j))
         /\ ScoreMatch(StrictAudit, golden, candidate, i, j) >= 990
              => Payload(golden[i]) = Payload(candidate[j])
         /\ Payload(golden[i]) = Payload(candidate[j])
              => ScoreMatch(StrictAudit, golden, candidate, i, j) = 1000
<1> DEFINE a == golden[i]
           b == candidate[j]
           d == Max({0, 10 - Distance(i, j)})
           p == IF Payload(a) = Payload(b) THEN 500 ELSE 0
           t == IF a.type = b.type THEN 500 ELSE 0
<1>1. d \in Nat
  <2>1. Distance(i, j) \in Nat
    BY DEF Distance
  <2>2. QED
    BY <2>1, MaxWithZero
<1>2. /\ p \in {0, 500} /\ t \in {0, 500}
      /\ p = 500 => Payload(a) = Payload(b)
      /\ Payload(a) = Payload(b) => p = 500 /\ t = 500
  BY DEF Payload
<1>3. Similarity(StrictAudit, a, b) = IF Payload(a) = Payload(b) THEN 1000 ELSE 0
  BY DEF Similarity, StrictAudit
<1>4. /\ StrictAudit.type = 500 /\ StrictAudit.payload = 500 /\ StrictAudit.locality = 0
      /\ StrictAudit.linear = TRUE
  BY DEF StrictAudit
<1> HIDE DEF d, a, b
<1>5. (0 * d) \div 10 = 0
  BY <1>1
<1>6. ScoreMatch(StrictAudit, golden, candidate, i, j)
        = t + (500 * Similarity(StrictAudit, a, b)) \div 1000 + 0 + (0 * d) \div 10
  BY <1>4 DEF ScoreMatch, a, b, d
<1>7. (500 * Similarity(StrictAudit, a, b)) \div 1000 = p
  BY <1>3
<1> HIDE DEF p, t
<1>8. ScoreMatch(StrictAudit, golden, candidate, i, j) = t + p
  BY <1>2, <1>5, <1>6, <1>7
<1>9. /\ t + p \in Nat /\ t + p <= 1000
      /\ t + p >= 990 => p = 500
      /\ p = 500 /\ t = 500 => t + p = 1000
  BY <1>2
<1>10. /\ t + p >= 990 => Payload(golden[i]) = Payload(candidate[j])
       /\ Payload(golden[i]) = Payload(candidate[j]) => t + p = 1000
  BY <1>2, <1>9 DEF a, b
<1>11. QED
  BY <1>8, <1>9, <1>10 DEF IsScore

LEMMA DebugScore ==
  ASSUME NEW golden, NEW candidate, NEW i \in Nat, NEW j \in Nat
  PROVE  /\ IsScore(ScoreMatch(DeveloperDebug, golden, candidate, i, j))
         /\ ScoreMatch(DeveloperDebug, golden, candidate, i, j) >= 750
              => Payload(golden[i]) = Payload(candidate[j])
         /\ golden = candidate /\ i = j
              => ScoreMatch(DeveloperDebug, golden, candidate, i, j) = 1000
<1> DEFINE a == golden[i]
           b == candidate[j]
           d == Max({0, 10 - Distance(i, j)})
           s == IF a.parent = b.parent THEN 150 ELSE 0
           p == IF Payload(a) = Payload(b) THEN 400 ELSE 0
           t == IF a.type = b.type THEN 400 ELSE 0
<1>1. d \in Nat /\ d <= 10 /\ (i = j => d = 10)
  <2>1. Distance(i, j) \in Nat /\ (i = j => Distance(i, j) = 0)
    BY DEF Distance
  <2>2. QED
    BY <2>1, MaxWithZero
<1>2. Similarity(DeveloperDebug, a, b) = IF Payload(a) = Payload(b) THEN 1000 ELSE 0
  BY DEF Similarity, DeveloperDebug
<1>3. /\ DeveloperDebug.type = 400 /\ DeveloperDebug.payload = 400
      /\ DeveloperDebug.structure = 150 /\ DeveloperDebug.locality = 50
      /\ DeveloperDebug.linear = FALSE
  BY DEF DeveloperDebug
<1>4. /\ s \in {0, 150} /\ p \in {0, 400} /\ t \in {0, 400}
      /\ p = 400 => Payload(a) = Payload(b)
      /\ golden = candidate /\ i = j => s = 150 /\ p = 400 /\ t = 400
  OBVIOUS
<1> HIDE DEF d, a, b
<1>5. (50 * d) \div 10 \in Nat /\ (50 * d) \div 10 <= 50 /\ (i = j => (50 * d) \div 10 = 50)
  BY <1>1
<1>6. ScoreMatch(DeveloperDebug, golden, candidate, i, j)
        = t + (400 * Similarity(DeveloperDebug, a, b)) \div 1000 + s + (50 * d) \div 10
  BY <1>3 DEF ScoreMatch, a, b, d
<1>7. (400 * Similarity(DeveloperDebug, a, b)) \div 1000 = p
  BY <1>2
<1> HIDE DEF s, p, t
<1> DEFINE l == (50 * d) \div 10
<1>8. /\ ScoreMatch(DeveloperDebug, golden, candidate, i, j) = t + p + s + l
      /\ l \in Nat /\ l <= 50 /\ (i = j => l = 50)
  BY <1>5, <1>6, <1>7
<1> HIDE DEF l
<1>9. /\ t + p + s + l \in Nat /\ t + p + s + l <= 1000
      /\ t + p + s + l >= 750 => p = 400
      /\ golden = candidate /\ i = j => t + p + s + l = 1000
  BY <1>4, <1>8
<1>10. t + p + s + l >= 750 => Payload(golden[i]) = Payload(candidate[j])
  BY <1>4, <1>9 DEF a, b
<1>11. QED
  BY <1>8, <1>9, <1>10 DEF IsScore

LEMMA ScoreRange ==
  ASSUME NEW c \in GateProfile, NEW golden, NEW candidate, NEW i \in Nat, NEW j \in Nat
  PROVE  IsScore(ScoreMatch(c, golden, candidate, i, j))
<1>1. IsScore(ScoreMatch(StrictAudit, golden, candidate, i, j))
  BY StrictScore
<1>2. IsScore(ScoreMatch(DeveloperDebug, golden, candidate, i, j))
  BY DebugScore, SMTT(30), ZenonT(30)
<1>3. QED
  BY <1>1, <1>2 DEF GateProfile

(* Unequal payloads stay under the threshold of the profile.               *)
Reaches(c, golden, candidate, i, j) ==
  ScoreMatch(c, golden, candidate, i, j) >= c.threshold

Agree(golden, candidate, i, j) == Payload(golden[i]) = Payload(candidate[j])

LEMMA ScoreTellsPayload ==
  ASSUME NEW c \in GateProfile, NEW golden, NEW candidate, NEW i \in Nat, NEW j \in Nat,
         Reaches(c, golden, candidate, i, j)
  PROVE  Agree(golden, candidate, i, j)
<1>1. CASE c = StrictAudit
  <2>1. ScoreMatch(StrictAudit, golden, candidate, i, j) >= 990
    BY <1>1 DEF StrictAudit, Reaches
  <2>2. QED
    BY <2>1, StrictScore DEF Agree
<1>2. CASE c = DeveloperDebug
  <2>1. ScoreMatch(DeveloperDebug, golden, candidate, i, j) >= 750
    BY <1>2 DEF DeveloperDebug, Reaches
  <2>2. QED
    BY <2>1, DebugScore DEF Agree
<1>3. QED
  BY <1>1, <1>2 DEF GateProfile

LEMMA Thresholds ==
  ASSUME NEW c \in GateProfile
  PROVE  c.threshold \in Nat /\ AmbiguityThreshold <= c.threshold /\ c.threshold <= 1000
BY DEF GateProfile, StrictAudit, DeveloperDebug, AmbiguityThreshold

-----------------------------------------------------------------------------
(* What the matcher makes of a table of scores between golden steps G and  *)
(* candidate steps C.                                                      *)

IsTable(scores, G, C) ==
  /\ IsFiniteSet(G) /\ IsFiniteSet(C) /\ G \subseteq Nat \ {0} /\ C \subseteq Nat \ {0}
  /\ DOMAIN scores = G
  /\ \A i \in G : DOMAIN scores[i] = C /\ \A j \in C : IsScore(scores[i][j])

PairOf(scores, i, j) == [score |-> scores[i][j], base |-> i, comp |-> j]

IsBinding(scores, G, C, B) ==
  /\ \A b \in B : /\ b.base \in G /\ b.comp \in C
                  /\ b = PairOf(scores, b.base, b.comp)
  /\ \A x, y \in B : Conflict(x, y) => x = y
  /\ \A i \in G, j \in C : scores[i][j] >= AmbiguityThreshold =>
       \E y \in B : \/ y = PairOf(scores, i, j)
                    \/ /\ Conflict(PairOf(scores, i, j), y)
                       /\ Precedes(y, PairOf(scores, i, j))

LEMMA BindingsBind ==
  ASSUME NEW G, NEW C, NEW scores, IsTable(scores, G, C)
  PROVE  IsBinding(scores, G, C, Bindings(scores))
<1> DEFINE Pairs(i) == {[score |-> scores[i][j], base |-> i, comp |-> j] : j \in DOMAIN scores[i]}
           P == {x \in UNION {Pairs(i) : i \in DOMAIN scores} : x.score >= AmbiguityThreshold}
           W == {PairOf(scores, i, j) : i \in G, j \in C}
<1>1. Bindings(scores) = Assign(P)
  BY DEF Bindings
<1>2. \A x : x \in P <=> x \in W /\ x.score >= AmbiguityThreshold
  <2>1. \A i \in G : Pairs(i) = {PairOf(scores, i, j) : j \in C}
    BY DEF IsTable, PairOf
  <2>2. DOMAIN scores = G
    BY DEF IsTable
  <2> HIDE DEF Pairs
  <2>3. QED
    BY <2>1, <2>2
<1> HIDE DEF P
<1>3. IsFiniteSet(W)
  <2>1. IsFiniteSet(G \X C)
    BY FS_Product DEF IsTable
  <2> DEFINE h == [p \in G \X C |-> PairOf(scores, p[1], p[2])]
  <2>2. h \in Surjection(G \X C, W)
    <3>1. h \in [G \X C -> W]
      OBVIOUS
    <3>2. ASSUME NEW w \in W PROVE \E p \in G \X C : h[p] = w
      <4>1. PICK i \in G, j \in C : w = PairOf(scores, i, j)
        OBVIOUS
      <4>2. <<i, j>> \in G \X C /\ h[<<i, j>>] = w
        BY <4>1
      <4>3. QED
        BY <4>2
    <3>3. QED
      BY <3>1, <3>2 DEF Surjection
  <2>3. QED
    BY <2>1, <2>2, FS_Surjection
<1>4. IsFiniteSet(P)
  BY <1>2, <1>3, FS_Subset
<1>5. \A x \in P : x \in W
  BY <1>2
<1>6. \A x \in W : /\ IsPair(x) /\ x.base \in G /\ x.comp \in C
                   /\ x = PairOf(scores, x.base, x.comp)
  BY DEF IsTable, PairOf, IsPair, IsScore
<1> HIDE DEF W
<1>7. /\ Assign(P) \subseteq P
      /\ \A x, y \in Assign(P) : Conflict(x, y) => x = y
      /\ \A x \in P : \E y \in Assign(P) :
           x = y \/ (Conflict(x, y) /\ Precedes(y, x))
  BY <1>4, <1>5, <1>6, AssignIsGreedy
<1>8. ASSUME NEW i \in G, NEW j \in C, scores[i][j] >= AmbiguityThreshold
      PROVE  PairOf(scores, i, j) \in P
  <2>1. PairOf(scores, i, j) \in W
    BY DEF W
  <2>2. PairOf(scores, i, j).score = scores[i][j]
    BY DEF PairOf
  <2>3. QED
    BY <1>2, <1>8, <2>1, <2>2
<1>9. QED
  BY <1>1, <1>5, <1>6, <1>7, <1>8 DEF IsBinding

LEMMA StepsAreFinite ==
  ASSUME NEW run, NEW E, run \in Seq(E), NEW minimum
  PROVE  /\ IsFiniteSet(Steps(run, minimum))
         /\ Steps(run, minimum) \subseteq Nat \ {0}
         /\ Steps(run, minimum) \subseteq DOMAIN run
<1>1. DOMAIN run = 1 .. Len(run) /\ Len(run) \in Nat
  OBVIOUS
<1>2. Steps(run, minimum) \subseteq 1 .. Len(run)
  BY <1>1 DEF Steps
<1>3. IsFiniteSet(1 .. Len(run))
  BY <1>1, FS_Interval
<1>4. QED
  BY <1>1, <1>2, <1>3, FS_Subset

LEMMA ScoresAreTable ==
  ASSUME NEW E, NEW golden \in Seq(E), NEW candidate \in Seq(E), NEW minimum,
         NEW c \in GateProfile
  PROVE  IsTable(Scores(c, golden, candidate, minimum),
                 Steps(golden, minimum), Steps(candidate, minimum))
<1> DEFINE G == Steps(golden, minimum)
           C == Steps(candidate, minimum)
<1>1. /\ IsFiniteSet(G) /\ G \subseteq Nat \ {0}
      /\ IsFiniteSet(C) /\ C \subseteq Nat \ {0}
  BY StepsAreFinite
<1>2. ASSUME NEW i \in G, NEW j \in C
      PROVE  IsScore(ScoreMatch(c, golden, candidate, i, j))
  <2>1. i \in Nat /\ j \in Nat
    BY <1>1
  <2>2. QED
    BY <2>1, ScoreRange
<1> HIDE DEF G, C
<1>3. Scores(c, golden, candidate, minimum)
        = [i \in G |-> [j \in C |-> ScoreMatch(c, golden, candidate, i, j)]]
  BY DEF Scores, G, C
<1>4. IsTable(Scores(c, golden, candidate, minimum), G, C)
  BY <1>1, <1>2, <1>3 DEF IsTable
<1>5. QED
  BY <1>4 DEF G, C

-----------------------------------------------------------------------------
(* What the interpreter says of a binding, and of the steps without one.   *)

LEMMA BoundIsReported ==
  ASSUME NEW c, NEW golden, NEW candidate, NEW minimum, NEW scores, NEW B, NEW b \in B
  PROVE  \E a \in Interpret(c, golden, candidate, minimum, scores, B) :
           /\ a.state = MatchState(c, golden, candidate, scores, B, b)
           /\ a.base = b.base /\ a.comp = b.comp
<1> DEFINE state == MatchState(c, golden, candidate, scores, B, b)
           options == IF state # "ambiguous" THEN 0
                      ELSE Min({c.options, Cardinality(Rivals(c, scores, B, b)) + 1})
           a == [state |-> state, base |-> b.base, comp |-> b.comp, options |-> options]
<1>1. a \in Interpret(c, golden, candidate, minimum, scores, B)
  BY DEF Interpret
<1>2. a.state = state /\ a.base = b.base /\ a.comp = b.comp
  OBVIOUS
<1> HIDE DEF a
<1>3. QED
  BY <1>1, <1>2

LEMMA RemovedIsReported ==
  ASSUME NEW c, NEW golden, NEW candidate, NEW minimum, NEW scores, NEW B,
         NEW i \in Steps(golden, minimum), \A b \in B : b.base # i
  PROVE  \E a \in Interpret(c, golden, candidate, minimum, scores, B) :
           a.state = "removed" /\ a.base = i /\ a.comp = None
<1>1. i \in Steps(golden, minimum) \ {b.base : b \in B}
  OBVIOUS
<1>2. [state |-> "removed", base |-> i, comp |-> None, options |-> 0]
        \in Interpret(c, golden, candidate, minimum, scores, B)
  BY <1>1 DEF Interpret
<1>3. QED
  BY <1>2

LEMMA AddedIsReported ==
  ASSUME NEW c, NEW golden, NEW candidate, NEW minimum, NEW scores, NEW B,
         NEW j \in Steps(candidate, minimum), \A b \in B : b.comp # j
  PROVE  \E a \in Interpret(c, golden, candidate, minimum, scores, B) :
           a.state = "added" /\ a.base = None /\ a.comp = j
<1>1. j \in Steps(candidate, minimum) \ {b.comp : b \in B}
  OBVIOUS
<1>2. [state |-> "added", base |-> None, comp |-> j, options |-> 0]
        \in Interpret(c, golden, candidate, minimum, scores, B)
  BY <1>1 DEF Interpret
<1>3. QED
  BY <1>2

LEMMA ReportedAreThese ==
  ASSUME NEW c, NEW golden, NEW candidate, NEW minimum, NEW scores, NEW B,
         NEW a \in Interpret(c, golden, candidate, minimum, scores, B)
  PROVE  \/ \E b \in B : /\ a.state = MatchState(c, golden, candidate, scores, B, b)
                         /\ a.base = b.base /\ a.comp = b.comp
         \/ /\ a.base \in Steps(golden, minimum) \ {b.base : b \in B}
            /\ a.comp = None /\ a.state = "removed"
         \/ /\ a.comp \in Steps(candidate, minimum) \ {b.comp : b \in B}
            /\ a.base = None /\ a.state = "added"
<1> DEFINE State(b) == MatchState(c, golden, candidate, scores, B, b)
           Options(b) == IF State(b) # "ambiguous" THEN 0
                         ELSE Min({c.options, Cardinality(Rivals(c, scores, B, b)) + 1})
<1>1. \/ \E b \in B : a = [state |-> State(b), base |-> b.base, comp |-> b.comp,
                           options |-> Options(b)]
      \/ \E i \in Steps(golden, minimum) \ {b.base : b \in B} :
           a = [state |-> "removed", base |-> i, comp |-> None, options |-> 0]
      \/ \E j \in Steps(candidate, minimum) \ {b.comp : b \in B} :
           a = [state |-> "added", base |-> None, comp |-> j, options |-> 0]
  BY DEF Interpret
<1> HIDE DEF State, Options
<1>2. QED
  BY <1>1 DEF State

(* A binding that is not divergent: payloads agree, and no other binding   *)
(* crosses it.                                                             *)
LEMMA Undisputed ==
  ASSUME NEW c, NEW golden, NEW candidate, NEW scores, NEW B, NEW b \in B,
         b.score \in Int, c.threshold \in Int,
         MatchState(c, golden, candidate, scores, B, b) \notin DivergentKinds
  PROVE  /\ b.score >= c.threshold
         /\ \A x \in B : ~ Inverted(b, x) /\ ~ Inverted(x, b)
<1>1. ~ (b.score < c.threshold \/ Rivals(c, scores, B, b) # {})
  BY DEF MatchState, DivergentKinds
<1>2. ~ \E x \in B : Inverted(b, x) \/ Inverted(x, b)
  BY <1>1 DEF MatchState, DivergentKinds
<1>3. QED
  BY <1>1, <1>2

-----------------------------------------------------------------------------
(* A pass implies the same steps.                                          *)

(* An alignment of the gate, spelled out.                                  *)
LEMMA AlignUnfolds ==
  ASSUME NEW c, NEW golden, NEW candidate, NEW minimum
  PROVE  LET scores == Scores(c, golden, candidate, minimum)
             B == Bindings(scores)
             alignments == Interpret(c, golden, candidate, minimum, scores, B)
             result == Align(c, golden, candidate, minimum)
         IN  /\ result.alignments = alignments
             /\ result.risk = Risk(c, golden, candidate, scores, alignments)
BY DEF Align

(* The partner of every golden step, when every one is bound: it increases *)
(* as long as no two bindings cross.                                       *)
AllBound(D, B) == \A i \in D : \E b \in B : b.base = i

Uncrossed(D, B) == \A x, y \in B : x.base \in D /\ y.base \in D => ~ Inverted(x, y)

IsPartner(f, scores, B) ==
  /\ \A i \in DOMAIN f : PairOf(scores, i, f[i]) \in B
  /\ \A i, j \in DOMAIN f : i < j => f[i] < f[j]

LEMMA PartnersIncrease ==
  ASSUME NEW scores, NEW G, NEW C, NEW B, IsTable(scores, G, C), IsBinding(scores, G, C, B),
         NEW D \in SUBSET G, AllBound(D, B), Uncrossed(D, B)
  PROVE  \E f \in [D -> C] : IsPartner(f, scores, B)
<1> DEFINE f == [i \in D |-> (CHOOSE b \in B : b.base = i).comp]
<1>1. ASSUME NEW i \in D PROVE f[i] \in C /\ PairOf(scores, i, f[i]) \in B
  <2> DEFINE b == CHOOSE b \in B : b.base = i
  <2>1. b \in B /\ b.base = i
    BY DEF AllBound
  <2>2. f[i] = b.comp
    OBVIOUS
  <2> HIDE DEF b, f
  <2>3. b.comp \in C /\ b = PairOf(scores, b.base, b.comp)
    BY <2>1 DEF IsBinding
  <2>4. QED
    BY <2>1, <2>2, <2>3
<1>2. f \in [D -> C]
  BY <1>1
<1> HIDE DEF f
<1>3. ASSUME NEW i \in D, NEW j \in D, i < j PROVE f[i] < f[j]
  <2> DEFINE x == PairOf(scores, i, f[i])
             y == PairOf(scores, j, f[j])
  <2>1. x \in B /\ y \in B
    BY <1>1
  <2>2. x.base = i /\ x.comp = f[i] /\ y.base = j /\ y.comp = f[j]
    BY DEF PairOf
  <2> HIDE DEF x, y
  <2>3. i \in Nat /\ j \in Nat /\ f[i] \in Nat /\ f[j] \in Nat
    BY <1>1 DEF IsTable
  <2>4. x # y
    BY <1>3, <2>2, <2>3
  <2>5. ~ Conflict(x, y)
    BY <2>1, <2>4 DEF IsBinding
  <2>6. f[i] # f[j]
    BY <2>2, <2>5 DEF Conflict
  <2>7. ~ Inverted(x, y)
    BY <2>1, <2>2 DEF Uncrossed
  <2>8. ~ (f[i] > f[j])
    BY <1>3, <2>2, <2>7 DEF Inverted
  <2>9. QED
    BY <2>3, <2>6, <2>8
<1>4. IsPartner(f, scores, B)
  <2>1. DOMAIN f = D
    BY <1>2
  <2>2. QED
    BY <1>1, <1>3, <2>1 DEF IsPartner
<1>5. QED
  BY <1>2, <1>4

LEMMA StrictPassIsSame ==
  ASSUME NEW E, NEW golden \in Seq(E), NEW candidate \in Seq(E), NEW minimum,
         NEW c \in GateProfile,
         Check(Align(c, golden, candidate, minimum), StrictPolicy)
  PROVE  SameSteps(golden, candidate, minimum)
<1> DEFINE G == Steps(golden, minimum)
           C == Steps(candidate, minimum)
           scores == Scores(c, golden, candidate, minimum)
           B == Bindings(scores)
           alignments == Interpret(c, golden, candidate, minimum, scores, B)
<1>1. IsTable(scores, G, C)
  BY ScoresAreTable
<1>2. IsBinding(scores, G, C, B)
  BY <1>1, BindingsBind
<1>3. \A a \in alignments : a.state \notin DivergentKinds
  <2>1. Align(c, golden, candidate, minimum).alignments = alignments
    BY AlignUnfolds
  <2>2. ~ StrictPolicy.allow
    BY DEF StrictPolicy
  <2> HIDE DEF alignments
  <2>3. QED
    BY <2>1, <2>2 DEF Check
<1>4. \A i \in G : \E b \in B : b.base = i
  <2> SUFFICES ASSUME NEW i \in G, \A b \in B : b.base # i PROVE FALSE
    OBVIOUS
  <2>1. \E a \in alignments : a.state = "removed"
    BY RemovedIsReported
  <2>2. QED
    BY <1>3, <2>1 DEF DivergentKinds
<1>5. \A j \in C : \E b \in B : b.comp = j
  <2> SUFFICES ASSUME NEW j \in C, \A b \in B : b.comp # j PROVE FALSE
    OBVIOUS
  <2>1. \E a \in alignments : a.state = "added"
    BY AddedIsReported
  <2>2. QED
    BY <1>3, <2>1 DEF DivergentKinds
<1>6. ASSUME NEW b \in B
      PROVE  /\ Payload(golden[b.base]) = Payload(candidate[b.comp])
             /\ \A x \in B : ~ Inverted(b, x)
  <2>1. PICK a \in alignments : a.state = MatchState(c, golden, candidate, scores, B, b)
    BY BoundIsReported
  <2>2. MatchState(c, golden, candidate, scores, B, b) \notin DivergentKinds
    BY <1>3, <2>1
  <2>3. /\ b.base \in G /\ b.comp \in C
        /\ b = PairOf(scores, b.base, b.comp)
    BY <1>2 DEF IsBinding
  <2>4. b.score = ScoreMatch(c, golden, candidate, b.base, b.comp)
    BY <2>3 DEF PairOf, Scores
  <2>5. b.base \in Nat /\ b.comp \in Nat
    BY <1>1, <2>3 DEF IsTable
  <2> HIDE DEF G, C, scores, B, alignments
  <2>6. IsScore(b.score)
    BY <2>4, <2>5, ScoreRange
  <2>7. c.threshold \in Nat
    BY Thresholds
  <2>8. /\ b.score >= c.threshold
        /\ \A x \in B : ~ Inverted(b, x) /\ ~ Inverted(x, b)
    BY <2>2, <2>6, <2>7, Undisputed DEF IsScore
  <2>9. ScoreMatch(c, golden, candidate, b.base, b.comp) >= c.threshold
    BY <2>4, <2>8
  <2>10. Payload(golden[b.base]) = Payload(candidate[b.comp])
    <3>1. PICK i \in Nat, j \in Nat : i = b.base /\ j = b.comp
      BY <2>5
    <3>2. Reaches(c, golden, candidate, i, j)
      BY <2>9, <3>1 DEF Reaches
    <3>3. Agree(golden, candidate, i, j)
      BY <3>2, ScoreTellsPayload
    <3>4. QED
      BY <3>1, <3>3 DEF Agree
  <2>11. QED
    BY <2>8, <2>10
<1> HIDE DEF G, C, scores, B, alignments
<1>7. PICK f \in [G -> C] : IsPartner(f, scores, B)
  <2>1. G \in SUBSET G
    OBVIOUS
  <2>2. Uncrossed(G, B)
    BY <1>6 DEF Uncrossed
  <2>3. AllBound(G, B)
    BY <1>4 DEF AllBound
  <2>4. QED
    BY <1>1, <1>2, <2>1, <2>2, <2>3, PartnersIncrease
<1>8. ASSUME NEW i \in G PROVE Payload(golden[i]) = Payload(candidate[f[i]])
  <2>1. PairOf(scores, i, f[i]) \in B
    BY <1>7 DEF IsPartner
  <2>2. PairOf(scores, i, f[i]).base = i /\ PairOf(scores, i, f[i]).comp = f[i]
    BY DEF PairOf
  <2>3. QED
    BY <1>6, <2>1, <2>2
<1>9. ASSUME NEW j \in C PROVE \E i \in G : f[i] = j
  <2>1. PICK b \in B : b.comp = j
    BY <1>5
  <2>2. b.base \in G
    BY <1>2 DEF IsBinding
  <2> DEFINE x == PairOf(scores, b.base, f[b.base])
  <2>3. x \in B
    BY <1>7, <2>2 DEF IsPartner
  <2>4. x.base = b.base /\ x.comp = f[b.base]
    BY DEF PairOf
  <2> HIDE DEF x
  <2>5. Conflict(x, b)
    BY <2>4 DEF Conflict
  <2>6. x = b
    BY <1>2, <2>3, <2>5 DEF IsBinding
  <2>7. QED
    BY <2>1, <2>2, <2>4, <2>6
<1>10. KeepsOrder(f, golden, candidate)
  <2>1. DOMAIN f = G
    BY <1>7
  <2>2. QED
    BY <1>7, <1>8, <2>1 DEF KeepsOrder, IsPartner
<1>11. \E g \in [G -> C] : /\ KeepsOrder(g, golden, candidate)
                           /\ \A j \in C : \E i \in DOMAIN g : g[i] = j
  <2>1. DOMAIN f = G
    BY <1>7
  <2>2. QED
    BY <1>7, <1>9, <1>10, <2>1
<1>12. QED
  BY <1>11 DEF SameSteps, G, C

-----------------------------------------------------------------------------
(* What a risk of none says about the critical steps.                      *)

IsCritical(golden, a) == a.base # None /\ golden[a.base].priority = Critical

NothingLost(c, golden, candidate, scores, alignments) ==
  \A a \in alignments : IsCritical(golden, a) =>
    /\ a.comp # None
    /\ ~ Changed(c, golden, candidate, scores, a)
    /\ \A y \in alignments : IsCritical(golden, y) => ~ Inverted(a, y)

LEMMA RiskIsNone ==
  ASSUME NEW c, NEW golden, NEW candidate, NEW scores, NEW alignments
  PROVE  /\ Risk(c, golden, candidate, scores, alignments).level \in {"none", "high"}
         /\ Risk(c, golden, candidate, scores, alignments).level = "none"
              <=> NothingLost(c, golden, candidate, scores, alignments)
<1> DEFINE risk == Risk(c, golden, candidate, scores, alignments)
           critical == CriticalPairs(golden, alignments)
           matched == {a \in critical : a.comp # None}
           removed == critical \ matched
           reordered == {x \in matched : \E y \in matched : Inverted(x, y)}
           changed == {a \in matched : Changed(c, golden, candidate, scores, a)}
<1>1. risk = IF removed # {} THEN [level |-> "high", reason |-> "removed", steps |-> removed]
             ELSE IF reordered # {}
             THEN [level |-> "high", reason |-> "reordered", steps |-> reordered]
             ELSE IF changed # {}
             THEN [level |-> "high", reason |-> "changed", steps |-> changed]
             ELSE [level |-> "none", reason |-> "none", steps |-> {}]
  BY DEF Risk
<1>2. \A a : a \in critical <=> a \in alignments /\ IsCritical(golden, a)
  BY DEF CriticalPairs, IsCritical
<1> HIDE DEF critical
<1> DEFINE quiet == removed = {} /\ reordered = {} /\ changed = {}
<1>3. risk.level \in {"none", "high"} /\ (risk.level = "none" <=> quiet)
  <2> HIDE DEF removed, reordered, changed, risk
  <2>1. CASE removed # {}
    BY <1>1, <2>1
  <2>2. CASE removed = {} /\ reordered # {}
    BY <1>1, <2>2
  <2>3. CASE removed = {} /\ reordered = {} /\ changed # {}
    BY <1>1, <2>3
  <2>4. CASE quiet
    BY <1>1, <2>4
  <2>5. QED
    BY <2>1, <2>2, <2>3, <2>4
<1>4. ASSUME quiet PROVE NothingLost(c, golden, candidate, scores, alignments)
  <2>1. \A a \in critical : a \in matched
    BY <1>4
  <2>2. \A a \in critical : a.comp # None
    BY <2>1
  <2>3. \A a \in matched : /\ ~ Changed(c, golden, candidate, scores, a)
                           /\ \A y \in matched : ~ Inverted(a, y)
    BY <1>4
  <2> HIDE DEF matched
  <2>4. QED
    BY <1>2, <2>1, <2>2, <2>3 DEF NothingLost
<1>5. ASSUME NothingLost(c, golden, candidate, scores, alignments) PROVE quiet
  <2>1. \A a \in critical : /\ a.comp # None
                            /\ ~ Changed(c, golden, candidate, scores, a)
                            /\ \A y \in critical : ~ Inverted(a, y)
    BY <1>2, <1>5 DEF NothingLost
  <2>2. QED
    BY <2>1
<1> HIDE DEF quiet
<1>6. QED
  BY <1>3, <1>4, <1>5

LEMMA TolerantPassKeeps ==
  ASSUME NEW E, NEW golden \in Seq(E), NEW candidate \in Seq(E),
         NEW c \in GateProfile,
         \A e \in E : e.priority \in {Telemetry, Diagnostic, Structural, Critical},
         Check(Align(c, golden, candidate, Structural), TolerantPolicy)
  PROVE  KeepsSteps(golden, candidate, Critical)
<1> DEFINE G == Steps(golden, Structural)
           C == Steps(candidate, Structural)
           D == Steps(golden, Critical)
           scores == Scores(c, golden, candidate, Structural)
           B == Bindings(scores)
           alignments == Interpret(c, golden, candidate, Structural, scores, B)
<1>1. IsTable(scores, G, C)
  BY ScoresAreTable
<1>2. IsBinding(scores, G, C, B)
  BY <1>1, BindingsBind
<1>3. NothingLost(c, golden, candidate, scores, alignments)
  <2>1. Align(c, golden, candidate, Structural).risk
          = Risk(c, golden, candidate, scores, alignments)
    BY AlignUnfolds
  <2> HIDE DEF scores, alignments
  <2> DEFINE level == Risk(c, golden, candidate, scores, alignments).level
  <2>2. LevelOrder[level] <= LevelOrder["none"]
    BY <2>1 DEF Check, TolerantPolicy
  <2>3. level \in {"none", "high"}
    BY RiskIsNone
  <2> HIDE DEF level
  <2>4. level = "none"
    BY <2>2, <2>3 DEF LevelOrder
  <2>5. QED
    BY <2>4, RiskIsNone DEF level
<1>4. ASSUME NEW i \in D
      PROVE  i \in G /\ i \in DOMAIN golden /\ i # None /\ golden[i].priority = Critical
  <2>1. i \in DOMAIN golden /\ i \in Nat \ {0}
    BY StepsAreFinite
  <2>2. golden[i] \in E
    BY <2>1
  <2>3. golden[i].priority >= Critical
    BY DEF Steps
  <2>4. golden[i].priority = Critical
    BY <2>2, <2>3 DEF Telemetry, Diagnostic, Structural, Critical
  <2>5. QED
    BY <2>1, <2>4 DEF Steps, Critical, Structural, None
<1>5. ASSUME NEW i \in D PROVE \E b \in B : b.base = i
  <2> SUFFICES ASSUME \A b \in B : b.base # i PROVE FALSE
    OBVIOUS
  <2>1. i \in Steps(golden, Structural)
    BY <1>4
  <2>2. \E a \in alignments : a.state = "removed" /\ a.base = i /\ a.comp = None
    BY <2>1, RemovedIsReported
  <2> HIDE DEF alignments
  <2>3. PICK a \in alignments : a.base = i /\ a.comp = None
    BY <2>2
  <2>4. IsCritical(golden, a)
    BY <1>4, <2>3 DEF IsCritical
  <2>5. QED
    BY <1>3, <2>3, <2>4 DEF NothingLost
<1>6. ASSUME NEW b \in B, b.base \in D
      PROVE  /\ b.base \in G /\ b.comp \in C
             /\ b.score = ScoreMatch(c, golden, candidate, b.base, b.comp)
             /\ scores[b.base][b.comp] = b.score
             /\ \E a \in alignments : /\ a.base = b.base /\ a.comp = b.comp
                                      /\ IsCritical(golden, a)
  <2>1. /\ b.base \in G /\ b.comp \in C
        /\ b = PairOf(scores, b.base, b.comp)
    BY <1>2 DEF IsBinding
  <2>2. b.score = scores[b.base][b.comp]
    BY <2>1 DEF PairOf
  <2>3. scores[b.base][b.comp] = ScoreMatch(c, golden, candidate, b.base, b.comp)
    BY <2>1 DEF Scores
  <2>4. \E a \in alignments : /\ a.state = MatchState(c, golden, candidate, scores, B, b)
                              /\ a.base = b.base /\ a.comp = b.comp
    BY BoundIsReported
  <2>5. PICK a \in alignments : a.base = b.base /\ a.comp = b.comp
    BY <2>4
  <2>6. b.base # None /\ golden[b.base].priority = Critical
    BY <1>4, <1>6
  <2> HIDE DEF alignments, scores
  <2>7. IsCritical(golden, a)
    BY <2>5, <2>6 DEF IsCritical
  <2>8. QED
    BY <2>1, <2>2, <2>3, <2>5, <2>7
<1> HIDE DEF alignments, scores, B, C, D, G
<1>7. ASSUME NEW x \in B, NEW y \in B, x.base \in D, y.base \in D
      PROVE  ~ Inverted(x, y)
  <2>1. PICK u \in alignments : u.base = x.base /\ u.comp = x.comp /\ IsCritical(golden, u)
    BY <1>6, <1>7
  <2>2. PICK v \in alignments : v.base = y.base /\ v.comp = y.comp /\ IsCritical(golden, v)
    BY <1>6, <1>7
  <2>3. ~ Inverted(u, v)
    BY <1>3, <2>1, <2>2 DEF NothingLost
  <2>4. QED
    BY <2>1, <2>2, <2>3 DEF Inverted
<1>8. ASSUME NEW b \in B, b.base \in D
      PROVE  Payload(golden[b.base]) = Payload(candidate[b.comp])
  <2>1. PICK a \in alignments : a.base = b.base /\ a.comp = b.comp /\ IsCritical(golden, a)
    BY <1>6, <1>8
  <2>2. a.comp # None /\ ~ Changed(c, golden, candidate, scores, a)
    BY <1>3, <2>1 DEF NothingLost
  <2>3. b.base \in Nat /\ b.comp \in Nat
    BY <1>1, <1>6, <1>8 DEF IsTable
  <2>4. PICK i \in Nat, j \in Nat : i = b.base /\ j = b.comp
    BY <2>3
  <2>5. scores[i][j] = ScoreMatch(c, golden, candidate, i, j)
    BY <1>6, <1>8, <2>4
  <2>6. \/ Payload(golden[i]) = Payload(candidate[j])
        \/ ~ (scores[i][j] < c.threshold)
    BY <2>1, <2>2, <2>4 DEF Changed
  <2>7. IsScore(scores[i][j]) /\ c.threshold \in Nat
    BY <2>5, ScoreRange, Thresholds
  <2>8. CASE ~ (scores[i][j] < c.threshold)
    <3>1. Reaches(c, golden, candidate, i, j)
      BY <2>5, <2>7, <2>8 DEF IsScore, Reaches
    <3>2. Agree(golden, candidate, i, j)
      BY <3>1, ScoreTellsPayload
    <3>3. QED
      BY <2>4, <3>2 DEF Agree
  <2>9. QED
    BY <2>4, <2>6, <2>8
<1>9. PICK f \in [D -> C] : IsPartner(f, scores, B)
  <2>1. D \in SUBSET G
    BY <1>4
  <2>2. Uncrossed(D, B)
    BY <1>7 DEF Uncrossed
  <2>3. AllBound(D, B)
    BY <1>5 DEF AllBound
  <2>4. QED
    BY <1>1, <1>2, <2>1, <2>2, <2>3, PartnersIncrease
<1>10. ASSUME NEW i \in D
       PROVE  Payload(golden[i]) = Payload(candidate[f[i]]) /\ f[i] \in Steps(candidate, Critical)
  <2>1. PairOf(scores, i, f[i]) \in B
    BY <1>9 DEF IsPartner
  <2>2. PairOf(scores, i, f[i]).base = i /\ PairOf(scores, i, f[i]).comp = f[i]
    BY DEF PairOf
  <2>3. Payload(golden[i]) = Payload(candidate[f[i]])
    BY <1>8, <2>1, <2>2
  <2>4. candidate[f[i]].priority = Critical
    BY <1>4, <2>3 DEF Payload
  <2>5. f[i] \in DOMAIN candidate
    BY <1>9 DEF C, Steps
  <2>6. QED
    BY <2>3, <2>4, <2>5 DEF Steps, Critical
<1>11. f \in [D -> Steps(candidate, Critical)] /\ DOMAIN f = D
  BY <1>9, <1>10
<1>12. KeepsOrder(f, golden, candidate)
  BY <1>9, <1>10, <1>11 DEF KeepsOrder, IsPartner
<1>13. QED
  BY <1>11, <1>12 DEF KeepsSteps, D

-----------------------------------------------------------------------------
(* The same steps imply a pass.  When every step has a partner of full     *)
(* score, in order, the matcher can bind nothing else: the first golden    *)
(* step that it bound elsewhere, or not at all, would have given way to a  *)
(* pair that an earlier partner already excludes.                          *)

IsDiagonal(f, scores, G, C) ==
  /\ f \in [G -> C]
  /\ \A i, j \in G : i < j => f[i] < f[j]
  /\ \A j \in C : \E i \in G : f[i] = j
  /\ \A i \in G : scores[i][f[i]] = 1000

LEMMA DiagonalIsBound ==
  ASSUME NEW scores, NEW G, NEW C, NEW B, NEW f,
         IsTable(scores, G, C), IsBinding(scores, G, C, B), IsDiagonal(f, scores, G, C)
  PROVE  \A i \in G : PairOf(scores, i, f[i]) \in B
<1> DEFINE T == {n \in Nat : \A i \in G : i < n => PairOf(scores, i, f[i]) \in B}
<1>1. G \subseteq Nat /\ C \subseteq Nat
  BY DEF IsTable
<1>2. 0 \in T
  BY <1>1
<1>3. ASSUME NEW n \in T PROVE n + 1 \in T
  <2>1. n \in Nat /\ \A i \in G : i < n => PairOf(scores, i, f[i]) \in B
    OBVIOUS
  <2> SUFFICES ASSUME n \in G PROVE PairOf(scores, n, f[n]) \in B
    <3>1. \A i \in G : i < n + 1 => i < n \/ i = n
      BY <1>1, <2>1
    <3>2. QED
      BY <2>1, <3>1
  <2> DEFINE x == PairOf(scores, n, f[n])
  <2>2. f[n] \in C /\ scores[n][f[n]] = 1000
    BY DEF IsDiagonal
  <2>3. x.score = 1000 /\ x.base = n /\ x.comp = f[n]
    BY <2>2 DEF PairOf
  <2>4. PICK y \in B : y = x \/ (Conflict(x, y) /\ Precedes(y, x))
    BY <2>2 DEF IsBinding, AmbiguityThreshold
  <2> HIDE DEF x, T
  <2>5. ASSUME y # x PROVE FALSE
    <3>1. /\ y.base \in G /\ y.comp \in C
          /\ y = PairOf(scores, y.base, y.comp)
      BY DEF IsBinding
    <3>2. y.score = scores[y.base][y.comp]
      BY <3>1 DEF PairOf
    <3>3. IsScore(y.score)
      BY <3>1, <3>2 DEF IsTable
    <3>4. Conflict(x, y) /\ Precedes(y, x)
      BY <2>4, <2>5
    <3>5. y.base \in Nat /\ y.comp \in Nat /\ f[n] \in Nat
      <4>1. y.base \in G /\ y.comp \in C /\ f[n] \in C
        BY <2>2, <3>1
      <4>2. QED
        BY <1>1, <4>1, Zenon
    <3>6. y.score = 1000 /\ (y.base < n \/ (y.base = n /\ y.comp < f[n]))
      BY <2>1, <2>3, <3>3, <3>4, <3>5, SMTT(30) DEF Precedes, IsScore
    <3>7. CASE y.base = n /\ y.comp < f[n]
      <4>1. PICK i \in G : f[i] = y.comp
        BY <3>1 DEF IsDiagonal
      <4>2. i < n
        <5>1. ~ (n < i) /\ n # i
          BY <3>5, <3>7, <4>1 DEF IsDiagonal
        <5>2. QED
          BY <1>1, <2>1, <5>1
      <4>3. PairOf(scores, i, f[i]) \in B
        BY <2>1, <4>2
      <4>4. PairOf(scores, i, f[i]).base = i /\ PairOf(scores, i, f[i]).comp = y.comp
        BY <4>1 DEF PairOf
      <4>5. PairOf(scores, i, f[i]) = y
        BY <4>3, <4>4 DEF IsBinding, Conflict
      <4>6. QED
        BY <2>1, <3>7, <4>2, <4>4, <4>5
    <3>8. CASE y.base < n
      <4>1. y.comp = f[n]
        BY <2>1, <2>3, <3>4, <3>5, <3>8 DEF Conflict
      <4>2. f[y.base] < f[n]
        BY <3>1, <3>8 DEF IsDiagonal
      <4> DEFINE z == PairOf(scores, y.base, f[y.base])
      <4>3. z \in B
        BY <2>1, <3>1, <3>8
      <4>4. z.base = y.base /\ z.comp = f[y.base]
        BY DEF PairOf
      <4> HIDE DEF z
      <4>5. z = y
        BY <4>3, <4>4 DEF IsBinding, Conflict
      <4>6. QED
        BY <3>5, <4>1, <4>2, <4>4, <4>5
    <3>9. QED
      BY <3>6, <3>7, <3>8
  <2>6. QED
    BY <2>4, <2>5 DEF x
<1>4. T = Nat
  <2> HIDE DEF T
  <2>1. T \in SUBSET Nat
    BY DEF T
  <2>2. QED
    BY <1>2, <1>3, <2>1, SetInduction
<1>5. QED
  <2> SUFFICES ASSUME NEW i \in G PROVE PairOf(scores, i, f[i]) \in B
    OBVIOUS
  <2>1. i + 1 \in Nat /\ i < i + 1
    BY <1>1
  <2>2. i + 1 \in T
    BY <1>4, <2>1
  <2>3. QED
    BY <2>1, <2>2

LEMMA DiagonalIsAll ==
  ASSUME NEW scores, NEW G, NEW C, NEW B, NEW f,
         IsTable(scores, G, C), IsBinding(scores, G, C, B), IsDiagonal(f, scores, G, C)
  PROVE  /\ \A b \in B : b.base \in G /\ b.comp = f[b.base] /\ b.score = 1000
         /\ \A i \in G : \E b \in B : b.base = i
         /\ \A j \in C : \E b \in B : b.comp = j
         /\ \A x, y \in B : ~ Inverted(x, y)
<1>1. \A i \in G : PairOf(scores, i, f[i]) \in B
  BY DiagonalIsBound
<1>2. \A i, j : PairOf(scores, i, j).base = i /\ PairOf(scores, i, j).comp = j
                /\ PairOf(scores, i, j).score = scores[i][j]
  BY DEF PairOf
<1>3. ASSUME NEW b \in B
      PROVE  b.base \in G /\ b.comp = f[b.base] /\ b.score = 1000
  <2>1. b.base \in G
    BY DEF IsBinding
  <2> DEFINE z == PairOf(scores, b.base, f[b.base])
  <2>2. z \in B /\ z.base = b.base
    BY <1>1, <1>2, <2>1
  <2> HIDE DEF z
  <2>3. z = b
    BY <2>2 DEF IsBinding, Conflict
  <2>4. scores[b.base][f[b.base]] = 1000
    BY <2>1 DEF IsDiagonal
  <2>5. z.comp = f[b.base] /\ z.score = 1000
    BY <1>2, <2>4 DEF z
  <2>6. QED
    BY <2>1, <2>3, <2>5
<1>4. \A i \in G : \E b \in B : b.base = i
  BY <1>1, <1>2
<1>5. ASSUME NEW j \in C PROVE \E b \in B : b.comp = j
  <2>1. PICK i \in G : f[i] = j
    BY DEF IsDiagonal
  <2>2. QED
    BY <1>1, <1>2, <2>1
<1>6. ASSUME NEW x \in B, NEW y \in B PROVE ~ Inverted(x, y)
  <2> SUFFICES ASSUME Inverted(x, y) PROVE FALSE
    OBVIOUS
  <2>1. x.base < y.base /\ x.comp > y.comp
    BY DEF Inverted
  <2>2. x.base \in G /\ y.base \in G
    BY <1>3
  <2>3. f[x.base] < f[y.base]
    BY <2>1, <2>2 DEF IsDiagonal
  <2>4. f[x.base] \in Nat /\ f[y.base] \in Nat
    <3>1. f[x.base] \in C /\ f[y.base] \in C
      BY <2>2 DEF IsDiagonal
    <3>2. C \subseteq Nat
      BY DEF IsTable
    <3>3. QED
      BY <3>1, <3>2
  <2>5. f[x.base] > f[y.base]
    BY <1>3, <2>1
  <2>6. QED
    BY <2>3, <2>4, <2>5
<1>7. QED
  BY <1>3, <1>4, <1>5, <1>6

LEMMA DiagonalPasses ==
  ASSUME NEW E, NEW golden \in Seq(E), NEW candidate \in Seq(E), NEW minimum,
         NEW c \in GateProfile, NEW f,
         IsDiagonal(f, Scores(c, golden, candidate, minimum),
                    Steps(golden, minimum), Steps(candidate, minimum)),
         KeepsOrder(f, golden, candidate)
  PROVE  Check(Align(c, golden, candidate, minimum), StrictPolicy)
<1> DEFINE G == Steps(golden, minimum)
           C == Steps(candidate, minimum)
           scores == Scores(c, golden, candidate, minimum)
           B == Bindings(scores)
           alignments == Interpret(c, golden, candidate, minimum, scores, B)
<1>1. IsTable(scores, G, C)
  BY ScoresAreTable
<1>2. IsBinding(scores, G, C, B)
  BY <1>1, BindingsBind
<1>3. IsDiagonal(f, scores, G, C)
  OBVIOUS
<1>4. /\ \A b \in B : b.base \in G /\ b.comp = f[b.base] /\ b.score = 1000
      /\ \A i \in G : \E b \in B : b.base = i
      /\ \A j \in C : \E b \in B : b.comp = j
      /\ \A x, y \in B : ~ Inverted(x, y)
  <2> HIDE DEF B, scores, C, G
  <2>1. QED
    BY <1>1, <1>2, <1>3, DiagonalIsAll
<1>5. ASSUME NEW b \in B
      PROVE  /\ Payload(golden[b.base]) = Payload(candidate[b.comp])
             /\ b.base # None /\ b.comp # None
             /\ MatchState(c, golden, candidate, scores, B, b) = "exactMatch"
  <2>1. b.base \in G /\ b.comp = f[b.base] /\ b.score = 1000
    BY <1>4
  <2>2. DOMAIN f = G /\ f[b.base] \in C
    BY <1>3, <2>1 DEF IsDiagonal
  <2>3. Payload(golden[b.base]) = Payload(candidate[b.comp])
    BY <2>1, <2>2 DEF KeepsOrder
  <2>4. b.base # None /\ b.comp # None
    BY <1>1, <2>1, <2>2 DEF IsTable, None
  <2>5. ~ (b.score < c.threshold)
    BY <2>1, Thresholds
  <2>6. Rivals(c, scores, B, b) = {}
    <3>1. DOMAIN scores[b.base] = C
      BY <1>1, <2>1 DEF IsTable
    <3>2. DOMAIN scores[b.base] \ {x.comp : x \in B} = {}
      BY <1>4, <3>1
    <3>3. QED
      BY <3>2 DEF Rivals
  <2>7. ~ \E x \in B : Inverted(b, x) \/ Inverted(x, b)
    BY <1>4
  <2> HIDE DEF B, scores, C, G
  <2>8. MatchState(c, golden, candidate, scores, B, b) = "exactMatch"
    BY <2>3, <2>5, <2>6, <2>7 DEF MatchState
  <2>9. QED
    BY <2>3, <2>4, <2>8
<1>6. ASSUME NEW a \in alignments
      PROVE  \E b \in B : a.state = "exactMatch" /\ a.base = b.base /\ a.comp = b.comp
  <2>1. \/ \E b \in B : /\ a.state = MatchState(c, golden, candidate, scores, B, b)
                        /\ a.base = b.base /\ a.comp = b.comp
        \/ /\ a.base \in Steps(golden, minimum) \ {b.base : b \in B}
           /\ a.comp = None /\ a.state = "removed"
        \/ /\ a.comp \in Steps(candidate, minimum) \ {b.comp : b \in B}
           /\ a.base = None /\ a.state = "added"
    BY ReportedAreThese
  <2>2. /\ Steps(golden, minimum) \ {b.base : b \in B} = {}
        /\ Steps(candidate, minimum) \ {b.comp : b \in B} = {}
    BY <1>4
  <2> HIDE DEF B, scores, C, G, alignments
  <2>3. QED
    BY <1>5, <2>1, <2>2
<1> HIDE DEF B, scores, C, G, alignments
<1>7. NothingLost(c, golden, candidate, scores, alignments)
  <2> SUFFICES ASSUME NEW a \in alignments, IsCritical(golden, a)
               PROVE  /\ a.comp # None
                      /\ ~ Changed(c, golden, candidate, scores, a)
                      /\ \A y \in alignments : IsCritical(golden, y) => ~ Inverted(a, y)
    BY DEF NothingLost
  <2>1. PICK b \in B : a.base = b.base /\ a.comp = b.comp
    BY <1>6
  <2>2. a.comp # None /\ Payload(golden[a.base]) = Payload(candidate[a.comp])
    BY <1>5, <2>1
  <2>3. ~ Changed(c, golden, candidate, scores, a)
    BY <2>2 DEF Changed
  <2>4. ASSUME NEW y \in alignments PROVE ~ Inverted(a, y)
    <3>1. PICK x \in B : y.base = x.base /\ y.comp = x.comp
      BY <1>6
    <3>2. ~ Inverted(b, x)
      BY <1>4
    <3>3. QED
      BY <2>1, <3>1, <3>2 DEF Inverted
  <2>5. QED
    BY <2>2, <2>3, <2>4
<1>8. \A a \in alignments : a.state \notin DivergentKinds
  BY <1>6 DEF DivergentKinds
<1> DEFINE result == Align(c, golden, candidate, minimum)
<1>9. result.alignments = alignments /\ result.risk = Risk(c, golden, candidate, scores, alignments)
  BY AlignUnfolds DEF alignments, scores, B
<1>10. result.risk.level = "none"
  BY <1>7, <1>9, RiskIsNone
<1> HIDE DEF result
<1>11. LevelOrder[result.risk.level] <= LevelOrder[StrictPolicy.max]
  BY <1>10 DEF StrictPolicy, LevelOrder
<1>12. Check(result, StrictPolicy)
  BY <1>8, <1>9, <1>11 DEF Check
<1>13. QED
  BY <1>12 DEF result

LEMMA SamePassesStrict ==
  ASSUME NEW E, NEW golden \in Seq(E), NEW candidate \in Seq(E), NEW minimum,
         SameSteps(golden, candidate, minimum)
  PROVE  Check(Align(StrictAudit, golden, candidate, minimum), StrictPolicy)
<1> DEFINE G == Steps(golden, minimum)
           C == Steps(candidate, minimum)
           scores == Scores(StrictAudit, golden, candidate, minimum)
<1>1. PICK f \in [G -> C] : /\ KeepsOrder(f, golden, candidate)
                            /\ \A j \in C : \E i \in DOMAIN f : f[i] = j
  BY DEF SameSteps
<1>2. DOMAIN f = G
  BY <1>1
<1>3. G \subseteq Nat /\ C \subseteq Nat
  BY StepsAreFinite
<1>4. ASSUME NEW i \in G PROVE scores[i][f[i]] = 1000
  <2>1. f[i] \in C
    BY <1>1
  <2>2. scores[i][f[i]] = ScoreMatch(StrictAudit, golden, candidate, i, f[i])
    BY <2>1 DEF Scores
  <2>3. Payload(golden[i]) = Payload(candidate[f[i]])
    BY <1>1, <1>2 DEF KeepsOrder
  <2>4. PICK n \in Nat, m \in Nat : n = i /\ m = f[i]
    BY <1>3, <2>1
  <2>5. ScoreMatch(StrictAudit, golden, candidate, n, m) = 1000
    BY <2>3, <2>4, StrictScore
  <2>6. QED
    BY <2>2, <2>4, <2>5
<1>5. IsDiagonal(f, scores, G, C)
  <2> HIDE DEF G, C, scores
  <2>1. QED
    BY <1>1, <1>2, <1>4 DEF IsDiagonal, KeepsOrder
<1>6. StrictAudit \in GateProfile
  BY DEF GateProfile
<1>7. QED
  BY <1>1, <1>5, <1>6, DiagonalPasses

LEMMA SelfPassesDebug ==
  ASSUME NEW E, NEW run \in Seq(E), NEW minimum
  PROVE  Check(Align(DeveloperDebug, run, run, minimum), StrictPolicy)
<1> DEFINE G == Steps(run, minimum)
           scores == Scores(DeveloperDebug, run, run, minimum)
           f == [i \in G |-> i]
<1>1. f \in [G -> G] /\ DOMAIN f = G
  OBVIOUS
<1>2. G \subseteq Nat
  BY StepsAreFinite
<1>3. ASSUME NEW i \in G PROVE scores[i][f[i]] = 1000
  <2>1. scores[i][f[i]] = ScoreMatch(DeveloperDebug, run, run, i, i)
    BY DEF Scores
  <2>2. PICK n \in Nat : n = i
    BY <1>2
  <2>3. ScoreMatch(DeveloperDebug, run, run, n, n) = 1000
    BY DebugScore
  <2>4. QED
    BY <2>1, <2>2, <2>3
<1>4. KeepsOrder(f, run, run)
  BY DEF KeepsOrder
<1>5. IsDiagonal(f, scores, G, G)
  <2>1. \A i, j \in G : i < j => f[i] < f[j]
    OBVIOUS
  <2>2. \A j \in G : \E i \in G : f[i] = j
    OBVIOUS
  <2> HIDE DEF G, scores, f
  <2>3. QED
    BY <1>1, <1>3, <2>1, <2>2 DEF IsDiagonal
<1>6. DeveloperDebug \in GateProfile
  BY DEF GateProfile
<1> HIDE DEF f
<1>7. QED
  BY <1>4, <1>5, <1>6, DiagonalPasses

-----------------------------------------------------------------------------
(* The gate passes a candidate exactly when it takes the steps of the      *)
(* golden run, for every pair of runs, of any length and any events whose  *)
(* priority is one of the four.                                            *)
LEMMA ExactForRuns ==
  ASSUME NEW E, \A e \in E : e.priority \in {Telemetry, Diagnostic, Structural, Critical},
         NEW golden \in Seq(E), NEW candidate \in Seq(E)
  PROVE  IsExact(golden, candidate)
<1>1. StrictAudit \in GateProfile /\ DeveloperDebug \in GateProfile
  BY DEF GateProfile
<1>2. \A c \in GateProfile :
        Check(Align(c, golden, candidate, Structural), StrictPolicy)
          => SameSteps(golden, candidate, Structural)
  BY StrictPassIsSame
<1>3. SameSteps(golden, candidate, Structural)
        => Check(Align(StrictAudit, golden, candidate, Structural), StrictPolicy)
  BY SamePassesStrict
<1>4. golden = candidate
        => Check(Align(DeveloperDebug, golden, candidate, Structural), StrictPolicy)
  BY SelfPassesDebug
<1>5. \A c \in GateProfile :
        Check(Align(c, golden, candidate, Structural), TolerantPolicy)
          => KeepsSteps(golden, candidate, Critical)
  BY TolerantPassKeeps
<1>6. QED
  BY <1>1, <1>2, <1>3, <1>4, <1>5 DEF IsExact

Prioritized(E) ==
  \A e \in E : e.priority \in {Telemetry, Diagnostic, Structural, Critical}

(* However two runs are recorded, the gate passes the second at any time   *)
(* exactly when it takes the steps that were recorded of the first.        *)
THEOREM GateExact ==
  ASSUME Prioritized(Recordable)
  PROVE  CompareInit /\ [][CompareNext]_compareVars => []GateIsExact
<1> DEFINE Recorded == goldenRun \in Seq(Recordable) /\ candidateRun \in Seq(Recordable)
<1>1. CompareInit => Recorded
  BY DEF CompareInit
<1>2. Recorded /\ [CompareNext]_compareVars => Recorded'
  <2> SUFFICES ASSUME Recorded, [CompareNext]_compareVars PROVE Recorded'
    OBVIOUS
  <2>1. CASE RecordGolden
    BY <2>1, AppendProperties DEF RecordGolden
  <2>2. CASE RecordCandidate
    BY <2>2, AppendProperties DEF RecordCandidate
  <2>3. CASE UNCHANGED compareVars
    BY <2>3 DEF compareVars
  <2>4. QED
    BY <2>1, <2>2, <2>3 DEF CompareNext
<1>3. Recorded => GateIsExact
  BY ExactForRuns DEF Prioritized, GateIsExact
<1> HIDE DEF Recorded
<1>4. QED
  BY <1>1, <1>2, <1>3, PTL

-----------------------------------------------------------------------------
(* The baseline of dpk.  What its processes hold.                          *)

BaselineSorts ==
  /\ Run \subseteq Nat \ {0} /\ IsFiniteSet(Run)
  /\ \A s \in StepKinds : s.priority \in {Telemetry, Diagnostic, Structural, Critical}

Database == [rows : SUBSET Run, events : [Run -> Seq(StepKinds)],
             edges : SUBSET ((Run \X Nat) \X (Run \X Nat))]

RecordState == {"idle", "load", "backup", "prune", "unlink", "replace", "done"}
GateState == {"idle", "select", "load", "done"}
Contexts == {ContextOf[r] : r \in Run} \cup {AnyContext}

BaselineTypeOK ==
  /\ db \in Database /\ baseline \in Database
  /\ record \in [pc : RecordState, exit : {0, 2}, run : Run \cup {NoRun}, loaded : Nat,
                 temp : Database]
  /\ gate \in [pc : GateState, exit : {0, 1, 2}, context : Contexts, file : Database,
               run : Run \cup {NoRun}, golden : Seq(StepKinds), candidate : Seq(StepKinds)]

(* A file that is run r alone, cut out of database d, and one that holds   *)
(* at least that.                                                          *)
Holds(file, r, d) ==
  /\ r \in Run /\ r \in file.rows
  /\ file.events[r] # <<>> /\ IsPrefix(file.events[r], d.events[r])

IsRunAlone(file, r, d) ==
  /\ Holds(file, r, d) /\ file.rows = {r}
  /\ \A q \in Run \ {r} : file.events[q] = <<>>
  /\ \A e \in file.edges : e[1] \in EventIds(file) /\ e[2] \in EventIds(file)

Whole(file, d) == \E r \in Run : IsRunAlone(file, r, d)

(* The inductive invariant: what dpk record has in hand between its steps. *)
(* Each step leaves the next one at least the events that were loaded.     *)
RecordInv ==
  /\ record.pc = "backup" => /\ Holds(db, record.run, db)
                             /\ Len(db.events[record.run]) >= record.loaded
  /\ record.pc = "prune" => /\ Holds(record.temp, record.run, db)
                            /\ Len(record.temp.events[record.run]) >= record.loaded
  /\ record.pc \in {"unlink", "replace"} =>
       /\ IsRunAlone(record.temp, record.run, db)
       /\ Len(record.temp.events[record.run]) >= record.loaded

BaselineInv == baseline # NoFile => Whole(baseline, db)

GateFileInv ==
  /\ gate.pc \in {"select", "load"} => Whole(gate.file, db)
  /\ gate.pc = "load" => NoRun \notin {gate.run, Newest(gate.file, gate.context)}

PinnedInv ==
  record.pc = "done" /\ record.exit = 0 =>
    /\ baseline.rows = {record.run}
    /\ Len(baseline.events[record.run]) >= record.loaded

GateExitInv ==
  /\ gate.pc # "done" => gate.golden = <<>>
  /\ GateExit

PinInv == /\ BaselineTypeOK /\ RecordInv /\ BaselineInv /\ GateFileInv /\ PinnedInv
          /\ GateExitInv

-----------------------------------------------------------------------------
(* Databases only grow.                                                    *)

Grows(d, e) == d.rows \subseteq e.rows /\ \A r \in Run : \E u \in Seq(StepKinds) :
                 e.events[r] = d.events[r] \o u

LEMMA PrefixOfGrown ==
  ASSUME NEW d \in Database, NEW e \in Database, Grows(d, e), NEW r \in Run,
         NEW t \in Seq(StepKinds), IsPrefix(t, d.events[r])
  PROVE  IsPrefix(t, e.events[r]) /\ Len(d.events[r]) <= Len(e.events[r])
<1>1. PICK u \in Seq(StepKinds) : e.events[r] = d.events[r] \o u
  BY DEF Grows
<1>2. d.events[r] \in Seq(StepKinds)
  BY DEF Database
<1>3. QED
  BY <1>1, <1>2, PrefixGrows

LEMMA HoldsGrows ==
  ASSUME NEW d \in Database, NEW e \in Database, Grows(d, e), NEW f \in Database
  PROVE  /\ \A r : Holds(f, r, d) => Holds(f, r, e)
         /\ \A r : IsRunAlone(f, r, d) => IsRunAlone(f, r, e)
         /\ Whole(f, d) => Whole(f, e)
<1>1. ASSUME NEW r, Holds(f, r, d) PROVE Holds(f, r, e)
  <2>1. /\ r \in Run /\ r \in f.rows
        /\ f.events[r] # <<>> /\ IsPrefix(f.events[r], d.events[r])
    BY <1>1 DEF Holds
  <2>2. f.events[r] \in Seq(StepKinds)
    BY <2>1 DEF Database
  <2>3. IsPrefix(f.events[r], e.events[r])
    BY <2>1, <2>2, PrefixOfGrown
  <2>4. QED
    BY <2>1, <2>3 DEF Holds
<1>2. QED
  BY <1>1 DEF IsRunAlone, Whole

LEMMA GrowsSelf ==
  ASSUME NEW d \in Database
  PROVE  Grows(d, d) /\ Grows(d, Opened(d)) /\ Opened(d) \in Database
<1>1. ASSUME NEW r \in Run PROVE d.events[r] = d.events[r] \o <<>>
  <2>1. d.events[r] \in Seq(StepKinds)
    BY DEF Database
  <2>2. QED
    BY <2>1, ConcatEmptySeq
<1>2. <<>> \in Seq(StepKinds)
  OBVIOUS
<1>3. /\ Opened(d).events = d.events /\ d.rows \subseteq Opened(d).rows
      /\ Opened(d) \in Database
  BY DEF Opened, Database
<1>4. QED
  BY <1>1, <1>2, <1>3 DEF Grows

(* The newest run of a database is one of its rows.                        *)
LEMMA MaxExists ==
  ASSUME NEW S \in SUBSET Nat, IsFiniteSet(S), S # {}
  PROVE  Max(S) \in S
<1> DEFINE T == {n \in Nat : \A R \in SUBSET S : Cardinality(R) = n /\ R # {} =>
                    \E x \in R : \A y \in R : x >= y}
<1>1. \A R \in SUBSET S : IsFiniteSet(R) /\ Cardinality(R) \in Nat
  BY FS_Subset, FS_CardinalityType
<1>2. 0 \in T
  BY <1>1, FS_EmptySet
<1>3. ASSUME NEW n \in T PROVE n + 1 \in T
  <2>1. n \in Nat
    OBVIOUS
  <2> SUFFICES ASSUME NEW R \in SUBSET S, Cardinality(R) = n + 1, R # {}
               PROVE  \E x \in R : \A y \in R : x >= y
    BY <2>1
  <2>2. PICK a : a \in R
    OBVIOUS
  <2>3. R \ {a} \in SUBSET S /\ Cardinality(R \ {a}) = n
    <3>1. IsFiniteSet(R)
      BY <1>1
    <3>2. Cardinality(R \ {a}) = Cardinality(R) - 1
      BY <2>2, <3>1, FS_RemoveElement
    <3>3. Cardinality(R \ {a}) = n
      BY <2>1, <3>2
    <3>4. R \ {a} \in SUBSET S
      OBVIOUS
    <3>5. QED
      BY <3>3, <3>4
  <2>4. CASE R \ {a} = {}
    BY <2>2, <2>4
  <2>5. CASE R \ {a} # {}
    <3>1. PICK x \in R \ {a} : \A y \in R \ {a} : x >= y
      BY <2>3, <2>5
    <3>2. x \in Nat /\ a \in Nat /\ \A y \in R : y \in Nat
      BY <2>2
    <3>3. CASE x >= a
      BY <3>1, <3>2, <3>3
    <3>4. CASE a >= x
      BY <2>2, <3>1, <3>2, <3>4
    <3>5. QED
      BY <3>2, <3>3, <3>4
  <2>6. QED
    BY <2>4, <2>5
<1>4. T = Nat
  <2> HIDE DEF T
  <2>1. T \in SUBSET Nat
    BY DEF T
  <2>2. QED
    BY <1>2, <1>3, <2>1, SetInduction
<1>5. \E x \in S : \A y \in S : x >= y
  BY <1>1, <1>4
<1>6. QED
  BY <1>5 DEF Max

LEMMA NewestIsRow ==
  ASSUME BaselineSorts, NEW d \in Database, NEW context
  PROVE  Newest(d, context) \in d.rows \cup {NoRun} /\ Newest(d, context) \in Run \cup {NoRun}
<1> DEFINE matching == {r \in d.rows : context \in {AnyContext, ContextOf[r]}}
<1>1. d.rows \subseteq Run /\ matching \subseteq Run
  BY DEF Database
<1>2. matching \in SUBSET Nat /\ IsFiniteSet(matching)
  BY <1>1, FS_Subset DEF BaselineSorts
<1>3. matching # {} => Max(matching) \in matching
  BY <1>2, MaxExists
<1>4. Newest(d, context) = IF matching = {} THEN NoRun ELSE Max(matching)
  BY DEF Newest
<1>5. QED
  BY <1>1, <1>3, <1>4

-----------------------------------------------------------------------------
(* What each step leaves: the databases it may grow, and the types.        *)

LEMMA CommitsGrow ==
  ASSUME BaselineTypeOK, NEW r \in Run, NEW s \in StepKinds, CommitStep(r, s)
  PROVE  db' \in Database /\ Grows(db, db')
<1>1. /\ db.rows \subseteq Run /\ db.events \in [Run -> Seq(StepKinds)]
      /\ db \in Database
  BY DEF BaselineTypeOK, Database
<1>2. db' = [db EXCEPT !.events[r] = Append(@, s)]
  BY DEF CommitStep
<1>3. db.events[r] \in Seq(StepKinds)
  BY <1>1
<1>4. Append(db.events[r], s) = db.events[r] \o <<s>> /\ <<s>> \in Seq(StepKinds)
  BY <1>3
<1>5. \A q \in Run \ {r} : db'.events[q] = db.events[q]
  BY <1>1, <1>2 DEF Database
<1>6. db'.events[r] = Append(db.events[r], s) /\ db'.rows = db.rows
  BY <1>1, <1>2 DEF Database
<1>7. \A q \in Run \ {r} : db.events[q] = db.events[q] \o <<>>
  <2> SUFFICES ASSUME NEW q \in Run \ {r} PROVE db.events[q] = db.events[q] \o <<>>
    OBVIOUS
  <2>1. db.events[q] \in Seq(StepKinds)
    BY <1>1
  <2>2. QED
    BY <2>1, ConcatEmptySeq
<1>8. Append(db.events[r], s) \in Seq(StepKinds)
  BY <1>3
<1>9. [db.events EXCEPT ![r] = Append(@, s)] \in [Run -> Seq(StepKinds)]
  BY <1>1, <1>8
<1>10. db' \in Database
  BY <1>1, <1>2, <1>9 DEF Database
<1>11. \A q \in Run : \E u \in Seq(StepKinds) : db'.events[q] = db.events[q] \o u
  <2> SUFFICES ASSUME NEW q \in Run
               PROVE  \E u \in Seq(StepKinds) : db'.events[q] = db.events[q] \o u
    OBVIOUS
  <2>1. CASE q = r
    BY <1>4, <1>6, <2>1
  <2>2. CASE q # r
    <3>1. db'.events[q] = db.events[q] \o <<>> /\ <<>> \in Seq(StepKinds)
      BY <1>5, <1>7, <2>2
    <3>2. QED
      BY <3>1
  <2>3. QED
    BY <2>1, <2>2
<1>12. QED
  BY <1>6, <1>10, <1>11 DEF Grows

LEMMA NextGrows ==
  ASSUME BaselineTypeOK, BaselineNext
  PROVE  db' \in Database /\ Grows(db, db')
<1>1. db \in Database
  BY DEF BaselineTypeOK
<1>2. Grows(db, db) /\ Grows(db, Opened(db)) /\ Opened(db) \in Database
  BY <1>1, GrowsSelf
<1>3. CASE db' = db
  BY <1>1, <1>2, <1>3
<1>4. CASE db' = Opened(db)
  BY <1>2, <1>4
<1>5. ASSUME NEW r \in Run, NEW s \in StepKinds, CommitStep(r, s)
      PROVE  db' \in Database /\ Grows(db, db')
  BY <1>5, CommitsGrow
<1>6. ASSUME NEW r \in Run, CommitRow(r)
      PROVE  db' \in Database /\ Grows(db, db')
  <2>1. db' \in Database /\ db'.events = db.events /\ db.rows \subseteq db'.rows
    BY <1>1, <1>6 DEF CommitRow, Database
  <2>2. QED
    BY <1>2, <2>1 DEF Grows
<1>7. ASSUME NEW r \in Run, NEW q \in Run, CommitEdge(r, q)
      PROVE  db' \in Database /\ Grows(db, db')
  <2>1. db.events[r] \in Seq(StepKinds) /\ db.events[q] \in Seq(StepKinds)
    BY <1>1 DEF Database
  <2> DEFINE edge == <<<<r, Len(db.events[r])>>, <<q, Len(db.events[q]) + 1>>>>
  <2>2. edge \in (Run \X Nat) \X (Run \X Nat)
    BY <2>1
  <2>3. db' = [db EXCEPT !.edges = @ \cup {edge}]
    BY <1>7 DEF CommitEdge
  <2> HIDE DEF edge
  <2>4. db' \in Database /\ db'.events = db.events /\ db.rows = db'.rows
    BY <1>1, <2>2, <2>3 DEF Database
  <2>5. QED
    BY <1>2, <2>4 DEF Grows
<1>8. ASSUME NEW run \in Run \cup {NoRun}, NEW context, RecordOpen(run, context)
      PROVE  db' = Opened(db)
  BY <1>8 DEF RecordOpen
<1>9. ASSUME \/ RecordLoad \/ RecordBackup \/ RecordPrune \/ RecordUnlink \/ RecordReplace
             \/ RecordFail \/ RecordEnd
      PROVE  db' = db
  BY <1>9 DEF RecordLoad, RecordBackup, RecordPrune, RecordUnlink, RecordReplace, RecordFail,
     RecordEnd
<1>10. ASSUME NEW context, GateOpen(context)
       PROVE  db' = db \/ db' = Opened(db)
  BY <1>10 DEF GateOpen
<1>11. ASSUME GateSelect \/ GateJudge \/ GateEnd PROVE db' = db
  BY <1>11 DEF GateSelect, GateJudge, GateEnd
<1>12. QED
  BY <1>3, <1>4, <1>5, <1>6, <1>7, <1>8, <1>9, <1>10, <1>11 DEF BaselineNext

(* A run in hand stays one that opens, and no shorter, as its database     *)
(* grows.                                                                  *)
LEMMA HeldGrows ==
  ASSUME NEW d \in Database, NEW e \in Database, Grows(d, e), NEW r, Holds(d, r, d)
  PROVE  Holds(e, r, e) /\ Len(d.events[r]) <= Len(e.events[r])
<1>1. r \in Run /\ r \in d.rows /\ d.events[r] # <<>>
  BY DEF Holds
<1>2. d.events[r] \in Seq(StepKinds) /\ e.events[r] \in Seq(StepKinds)
  BY <1>1 DEF Database
<1>3. IsPrefix(e.events[r], e.events[r]) /\ IsPrefix(d.events[r], d.events[r])
  BY <1>2, PrefixFacts
<1>4. Len(d.events[r]) <= Len(e.events[r])
  BY <1>1, <1>2, <1>3, PrefixOfGrown
<1>5. e.events[r] # <<>>
  BY <1>1, <1>2, <1>4
<1>6. r \in e.rows
  BY <1>1 DEF Grows
<1>7. QED
  BY <1>1, <1>3, <1>4, <1>5, <1>6 DEF Holds

LEMMA PrunedIsAlone ==
  ASSUME NEW d \in Database, NEW f \in Database, NEW r, Holds(f, r, d)
  PROVE  /\ Pruned(f, r) \in Database /\ IsRunAlone(Pruned(f, r), r, d)
         /\ Pruned(f, r).events[r] = f.events[r]
<1> DEFINE kept == [rows |-> f.rows \cap {r},
                    events |-> [q \in Run |-> IF q = r THEN f.events[q] ELSE <<>>],
                    edges |-> f.edges]
           p == Pruned(f, r)
<1>1. /\ r \in Run /\ r \in f.rows /\ f.events[r] # <<>>
      /\ IsPrefix(f.events[r], d.events[r])
  BY DEF Holds
<1>2. kept \in Database
  BY DEF Database
<1>3. p = [kept EXCEPT !.edges = {e \in @ : e[1] \in EventIds(kept) /\ e[2] \in EventIds(kept)}]
  BY DEF Pruned
<1>4. /\ p.rows = kept.rows /\ p.events = kept.events
      /\ p.edges = {e \in kept.edges : e[1] \in EventIds(kept) /\ e[2] \in EventIds(kept)}
      /\ p \in Database
  <2> HIDE DEF kept, p
  <2>1. QED
    BY <1>2, <1>3 DEF Database
<1>5. p.rows = {r} /\ p.events[r] = f.events[r] /\ \A q \in Run \ {r} : p.events[q] = <<>>
  BY <1>1, <1>4
<1>6. EventIds(p) = EventIds(kept)
  BY <1>4 DEF EventIds
<1> HIDE DEF kept, p
<1>7. \A e \in p.edges : e[1] \in EventIds(p) /\ e[2] \in EventIds(p)
  BY <1>4, <1>6
<1>8. IsRunAlone(p, r, d)
  BY <1>1, <1>5, <1>7 DEF IsRunAlone, Holds
<1>9. QED
  BY <1>4, <1>5, <1>8 DEF p

-----------------------------------------------------------------------------
LEMMA BaselineStarts ==
  ASSUME BaselineSorts, BaselineInit
  PROVE  PinInv
<1>1. Empty \in Database
  BY DEF Empty, Database
<1>2. BaselineTypeOK
  BY <1>1 DEF BaselineInit, BaselineTypeOK, Idle, GateIdle, NoFile, RecordState, GateState,
           NoRun, Contexts
<1>3. record.pc = "idle" /\ gate.pc = "idle" /\ gate.golden = <<>> /\ baseline = NoFile
  BY DEF BaselineInit, Idle, GateIdle
<1>4. QED
  BY <1>2, <1>3 DEF PinInv, RecordInv, BaselineInv, GateFileInv, PinnedInv, GateExitInv,
           GateExit

(* The types, action by action.                                            *)
LEMMA BaselineTyped ==
  ASSUME BaselineSorts, BaselineTypeOK, GateFileInv, RecordInv, BaselineNext
  PROVE  BaselineTypeOK'
<1>1. db' \in Database /\ db \in Database /\ Empty \in Database
  <2>1. db' \in Database
    BY NextGrows
  <2>2. db \in Database
    BY DEF BaselineTypeOK
  <2>3. Empty \in Database
    BY DEF Empty, Database
  <2>4. QED
    BY <2>1, <2>2, <2>3
<1> DEFINE RecordType == [pc : RecordState, exit : {0, 2}, run : Run \cup {NoRun},
                          loaded : Nat, temp : Database]
           GateType == [pc : GateState, exit : {0, 1, 2}, context : Contexts,
                        file : Database, run : Run \cup {NoRun},
                        golden : Seq(StepKinds), candidate : Seq(StepKinds)]
<1>2. record \in RecordType /\ gate \in GateType /\ baseline \in Database
  BY DEF BaselineTypeOK
<1>3. ASSUME NEW exit \in {0, 2} PROVE RecordDone(exit) \in RecordType
  BY <1>1, <1>2 DEF RecordDone, RecordState, NoFile
<1>4. ASSUME NEW exit \in {0, 1, 2} PROVE GateDone(exit) \in GateType
  BY <1>1, <1>2 DEF GateDone, GateState, NoFile
<1>5. Idle \in RecordType /\ GateIdle \in GateType
  BY <1>1 DEF Idle, GateIdle, RecordState, GateState, NoFile, Contexts
<1>6. ASSUME record' = record, gate' = gate, baseline' = baseline PROVE BaselineTypeOK'
  BY <1>1, <1>2, <1>6 DEF BaselineTypeOK
<1>7. ASSUME record' \in RecordType, gate' = gate, baseline' = baseline PROVE BaselineTypeOK'
  BY <1>1, <1>2, <1>7 DEF BaselineTypeOK
<1>8. ASSUME record' = record, gate' \in GateType, baseline' = baseline PROVE BaselineTypeOK'
  BY <1>1, <1>2, <1>8 DEF BaselineTypeOK
<1>9. ASSUME NEW r \in Run, NEW s \in StepKinds, CommitStep(r, s) PROVE BaselineTypeOK'
  BY <1>6, <1>9 DEF CommitStep
<1>10. ASSUME NEW r \in Run, CommitRow(r) PROVE BaselineTypeOK'
  BY <1>6, <1>10 DEF CommitRow
<1>11. ASSUME NEW r \in Run, NEW q \in Run, CommitEdge(r, q) PROVE BaselineTypeOK'
  BY <1>6, <1>11 DEF CommitEdge
<1>12. ASSUME NEW run \in Run \cup {NoRun}, NEW context \in Contexts, RecordOpen(run, context)
       PROVE  BaselineTypeOK'
  <2>1. Opened(db) \in Database
    BY <1>1, GrowsSelf
  <2> DEFINE selected == IF run # NoRun THEN run ELSE Newest(Opened(db), context)
  <2>2. selected \in Run \cup {NoRun}
    BY <2>1, NewestIsRow
  <2>3. record' = IF selected = NoRun THEN RecordDone(2)
                  ELSE [record EXCEPT !.pc = "load", !.run = selected]
    BY <1>12 DEF RecordOpen
  <2> HIDE DEF selected
  <2>4. [record EXCEPT !.pc = "load", !.run = selected] \in RecordType
    BY <1>2, <2>2 DEF RecordState
  <2> HIDE DEF RecordType
  <2>5. record' \in RecordType
    BY <1>3, <2>3, <2>4
  <2>6. QED
    BY <1>7, <1>12, <2>5 DEF RecordOpen
<1>13. CASE RecordLoad
  <2>1. Readable(db, record.run) => Len(db.events[record.run]) \in Nat
    <3>1. Readable(db, record.run) => db.events[record.run] \in Seq(StepKinds)
      BY <1>1 DEF Readable, Database
    <3>2. QED
      BY <3>1, LenProperties
  <2>2. record' \in RecordType
    <3>1. CASE Readable(db, record.run)
      <4>1. record' = [record EXCEPT !.pc = "backup", !.loaded = Len(db.events[record.run])]
        BY <1>13, <3>1 DEF RecordLoad
      <4>2. QED
        BY <1>2, <2>1, <3>1, <4>1 DEF RecordState
    <3>2. CASE ~ Readable(db, record.run)
      <4>1. record' = RecordDone(2)
        BY <1>13, <3>2 DEF RecordLoad
      <4>2. QED
        BY <1>3, <4>1
    <3>3. QED
      BY <3>1, <3>2
  <2>3. QED
    BY <1>7, <1>13, <2>2 DEF RecordLoad
<1>14. CASE RecordBackup
  <2>1. record' \in RecordType
    BY <1>1, <1>2, <1>14 DEF RecordBackup, RecordState
  <2>2. QED
    BY <1>7, <1>14, <2>1 DEF RecordBackup
<1>15. CASE RecordPrune
  <2>1. Holds(record.temp, record.run, db) /\ record.temp \in Database
    BY <1>2, <1>15 DEF RecordPrune, RecordInv
  <2>2. Pruned(record.temp, record.run) \in Database
    BY <1>1, <2>1, PrunedIsAlone
  <2>3. record' = [record EXCEPT !.pc = "unlink", !.temp = Pruned(record.temp, record.run)]
    BY <1>2, <1>15 DEF RecordPrune
  <2>4. record' \in RecordType
    BY <1>2, <2>2, <2>3 DEF RecordState
  <2>5. QED
    BY <1>7, <1>15, <2>4 DEF RecordPrune
<1>16. CASE RecordUnlink \/ RecordReplace
  <2>1. record' \in RecordType /\ baseline' \in Database /\ gate' = gate
    BY <1>1, <1>2, <1>3, <1>16 DEF RecordUnlink, RecordReplace, RecordState
  <2>2. QED
    BY <1>1, <1>2, <2>1 DEF BaselineTypeOK
<1>17. CASE RecordFail
  BY <1>3, <1>7, <1>17 DEF RecordFail
<1>18. CASE RecordEnd
  BY <1>5, <1>7, <1>18 DEF RecordEnd
<1>19. ASSUME NEW context \in Contexts, GateOpen(context) PROVE BaselineTypeOK'
  <2>1. [gate EXCEPT !.pc = "select", !.context = context, !.file = baseline] \in GateType
    BY <1>2 DEF GateState
  <2> HIDE DEF GateType
  <2>2. gate' \in GateType
    BY <1>4, <1>19, <2>1 DEF GateOpen
  <2>3. QED
    BY <1>8, <1>19, <2>2 DEF GateOpen
<1>20. CASE GateSelect
  <2> DEFINE selected == Newest(db, gate.context)
  <2>1. selected \in Run \cup {NoRun}
    BY <1>1, NewestIsRow
  <2>2. gate' = GateDone(2) \/ gate' = [gate EXCEPT !.pc = "load", !.run = selected]
    BY <1>20 DEF GateSelect
  <2> HIDE DEF selected
  <2>3. [gate EXCEPT !.pc = "load", !.run = selected] \in GateType
    BY <1>2, <2>1 DEF GateState
  <2> HIDE DEF GateType
  <2>4. gate' \in GateType
    BY <1>4, <2>2, <2>3
  <2>5. QED
    BY <1>8, <1>20, <2>4 DEF GateSelect
<1>21. CASE GateJudge
  <2> DEFINE golden == gate.file.events[Newest(gate.file, gate.context)]
             candidate == db.events[gate.run]
  <2>1. /\ gate.pc = "load"
        /\ gate' = [GateDone(Verdict(golden, candidate)) EXCEPT
                      !.golden = golden, !.candidate = candidate]
    BY <1>21 DEF GateJudge
  <2>2. Newest(gate.file, gate.context) \in Run /\ gate.run \in Run
    BY <1>2, <2>1, NewestIsRow DEF GateFileInv
  <2>3. golden \in Seq(StepKinds) /\ candidate \in Seq(StepKinds)
    BY <1>1, <1>2, <2>2 DEF Database
  <2> HIDE DEF golden, candidate
  <2>4. Verdict(golden, candidate) \in {0, 1, 2}
    BY DEF Verdict
  <2>5. GateDone(Verdict(golden, candidate)) \in GateType
    BY <1>4, <2>4
  <2>6. gate' \in GateType
    BY <2>1, <2>3, <2>5
  <2>7. QED
    BY <1>8, <1>21, <2>6 DEF GateJudge
<1>22. CASE GateEnd
  BY <1>5, <1>8, <1>22 DEF GateEnd
<1>23. QED
  BY <1>9, <1>10, <1>11, <1>12, <1>13, <1>14, <1>15, <1>16, <1>17, <1>18, <1>19, <1>20,
     <1>21, <1>22 DEF BaselineNext, Contexts

(* dpk record.  The other steps leave what it holds alone, or let the      *)
(* database grow under it.                                                 *)
LEMMA RecordKeeps ==
  ASSUME BaselineSorts, PinInv, BaselineNext
  PROVE  RecordInv'
<1>1. /\ db \in Database /\ db' \in Database /\ Grows(db, db')
      /\ record.temp \in Database /\ record.loaded \in Nat
  BY NextGrows DEF PinInv, BaselineTypeOK
<1>2. BaselineTypeOK /\ RecordInv
  BY DEF PinInv
<1>3. CASE record' = record
  <2>1. /\ record.pc' = record.pc /\ record.run' = record.run
        /\ record.temp' = record.temp /\ record.loaded' = record.loaded
    BY <1>3
  <2>2. ASSUME record.pc = "backup"
        PROVE  /\ Holds(db', record.run, db')
               /\ Len(db'.events[record.run]) >= record.loaded
    <3>1. Holds(db, record.run, db) /\ Len(db.events[record.run]) >= record.loaded
      BY <1>2, <2>2 DEF RecordInv
    <3>2. /\ Holds(db', record.run, db')
          /\ Len(db.events[record.run]) <= Len(db'.events[record.run])
      BY <1>1, <3>1, HeldGrows
    <3>3. db.events[record.run] \in Seq(StepKinds) /\ db'.events[record.run] \in Seq(StepKinds)
      BY <1>1, <3>1 DEF Holds, Database
    <3>4. QED
      BY <1>1, <3>1, <3>2, <3>3
  <2>3. ASSUME record.pc = "prune"
        PROVE  Holds(record.temp, record.run, db')
    BY <1>1, <1>2, <2>3, HoldsGrows DEF RecordInv
  <2>4. ASSUME record.pc \in {"unlink", "replace"}
        PROVE  IsRunAlone(record.temp, record.run, db')
    BY <1>1, <1>2, <2>4, HoldsGrows DEF RecordInv
  <2>5. QED
    BY <1>2, <2>1, <2>2, <2>3, <2>4 DEF RecordInv
<1>4. ASSUME record.pc' \notin {"backup", "prune", "unlink", "replace"} PROVE RecordInv'
  BY <1>4 DEF RecordInv
<1>5. record \in [pc : RecordState, exit : {0, 2}, run : Run \cup {NoRun}, loaded : Nat,
                  temp : Database]
  BY <1>2 DEF BaselineTypeOK
<1>6. \A exit : RecordDone(exit).pc = "done"
  BY <1>5 DEF RecordDone
<1>7. ASSUME NEW run \in Run \cup {NoRun}, NEW context, RecordOpen(run, context)
      PROVE  RecordInv'
  <2>1. record.pc' \in {"done", "load"}
    BY <1>5, <1>6, <1>7 DEF RecordOpen
  <2>2. QED
    BY <1>4, <2>1
<1>8. CASE RecordLoad
  <2>1. CASE ~ Readable(db, record.run)
    <3>1. record.pc' = "done"
      BY <1>6, <1>8, <2>1 DEF RecordLoad
    <3>2. QED
      BY <1>4, <3>1
  <2>2. CASE Readable(db, record.run)
    <3>1. /\ record.pc' = "backup" /\ record.run' = record.run /\ db' = db
          /\ record.loaded' = Len(db.events[record.run])
      BY <1>5, <1>8, <2>2 DEF RecordLoad
    <3>2. record.run \in Run /\ record.run \in db.rows /\ db.events[record.run] # <<>>
      BY <1>1, <2>2 DEF Readable, Database
    <3>3. db.events[record.run] \in Seq(StepKinds)
      BY <1>1, <3>2 DEF Database
    <3>4. IsPrefix(db.events[record.run], db.events[record.run])
          /\ Len(db.events[record.run]) \in Nat
      BY <3>3, PrefixFacts, LenProperties
    <3>5. Holds(db, record.run, db)
      BY <3>2, <3>4 DEF Holds
    <3>6. QED
      BY <3>1, <3>4, <3>5 DEF RecordInv
  <2>3. QED
    BY <2>1, <2>2
<1>9. CASE RecordBackup
  <2>1. /\ record.pc = "backup" /\ record.pc' = "prune" /\ record.run' = record.run
        /\ db' = db /\ record.loaded' = record.loaded /\ record.temp' = db
    BY <1>5, <1>9 DEF RecordBackup
  <2>2. QED
    BY <1>2, <2>1 DEF RecordInv
<1>10. CASE RecordPrune
  <2>1. /\ record.pc = "prune" /\ record.pc' = "unlink" /\ record.run' = record.run
        /\ db' = db /\ record.loaded' = record.loaded
        /\ record.temp' = Pruned(record.temp, record.run)
    BY <1>5, <1>10 DEF RecordPrune
  <2>2. /\ Holds(record.temp, record.run, db)
        /\ Len(record.temp.events[record.run]) >= record.loaded
    BY <1>2, <2>1 DEF RecordInv
  <2>3. /\ IsRunAlone(Pruned(record.temp, record.run), record.run, db)
        /\ Pruned(record.temp, record.run).events[record.run] = record.temp.events[record.run]
    BY <1>1, <2>2, PrunedIsAlone
  <2>4. QED
    BY <2>1, <2>2, <2>3 DEF RecordInv
<1>14. CASE RecordUnlink
  <2>1. /\ record.pc = "unlink" /\ record.pc' = "replace" /\ record.run' = record.run
        /\ db' = db /\ record.loaded' = record.loaded /\ record.temp' = record.temp
    BY <1>5, <1>14 DEF RecordUnlink
  <2>2. QED
    BY <1>2, <2>1 DEF RecordInv
<1>11. CASE RecordReplace \/ RecordFail \/ RecordEnd
  <2>1. record.pc' \in {"done", "idle"}
    BY <1>6, <1>11 DEF RecordReplace, RecordFail, RecordEnd, Idle
  <2>2. QED
    BY <1>4, <2>1
<1>12. ASSUME \/ \E r \in Run, s \in StepKinds : CommitStep(r, s)
              \/ \E r \in Run : CommitRow(r)
              \/ \E r, q \in Run : CommitEdge(r, q)
              \/ \E context \in Contexts : GateOpen(context)
              \/ GateSelect \/ GateJudge \/ GateEnd
       PROVE  record' = record
  BY <1>12 DEF CommitStep, CommitRow, CommitEdge, GateOpen, GateSelect, GateJudge, GateEnd
<1>13. QED
  BY <1>3, <1>7, <1>8, <1>9, <1>10, <1>14, <1>11, <1>12 DEF BaselineNext, Contexts

(* The file under the name of the baseline: only a replace changes it.     *)
LEMMA BaselineKeeps ==
  ASSUME BaselineSorts, PinInv, BaselineNext
  PROVE  BaselineInv' /\ PinnedInv'
<1>1. /\ db \in Database /\ db' \in Database /\ Grows(db, db')
      /\ baseline \in Database /\ record.temp \in Database /\ record.loaded \in Nat
  BY NextGrows DEF PinInv, BaselineTypeOK
<1>2. RecordInv /\ BaselineInv /\ PinnedInv
  BY DEF PinInv
<1>3. record \in [pc : RecordState, exit : {0, 2}, run : Run \cup {NoRun}, loaded : Nat,
                  temp : Database]
  BY DEF PinInv, BaselineTypeOK
<1>4. CASE RecordReplace
  <2>1. /\ record.pc = "replace" /\ baseline' = record.temp /\ db' = db
        /\ record.run' = record.run /\ record.loaded' = record.loaded
    BY <1>3, <1>4 DEF RecordReplace, RecordDone
  <2>2. /\ IsRunAlone(record.temp, record.run, db)
        /\ Len(record.temp.events[record.run]) >= record.loaded
    BY <1>2, <2>1 DEF RecordInv
  <2>3. record.run \in Run /\ record.temp.rows = {record.run}
    BY <2>2 DEF IsRunAlone, Holds
  <2>4. Whole(record.temp, db)
    BY <2>2, <2>3 DEF Whole
  <2>5. BaselineInv'
    BY <2>1, <2>4 DEF BaselineInv
  <2>6. PinnedInv'
    BY <2>1, <2>2, <2>3 DEF PinnedInv
  <2>7. QED
    BY <2>5, <2>6
<1>5. ASSUME baseline' = baseline PROVE BaselineInv'
  BY <1>1, <1>2, <1>5, HoldsGrows DEF BaselineInv
<1>6. ASSUME baseline' = baseline, record' = record PROVE PinnedInv'
  BY <1>2, <1>6 DEF PinnedInv
<1>7. ASSUME record.pc' # "done" \/ record.exit' # 0 PROVE PinnedInv'
  BY <1>7 DEF PinnedInv
<1>8. RecordDone(2).exit = 2
  BY <1>3 DEF RecordDone
<1>9. ASSUME NEW run \in Run \cup {NoRun}, NEW context, RecordOpen(run, context)
      PROVE  BaselineInv' /\ PinnedInv'
  <2>1. record.pc' # "done" \/ record.exit' # 0
    BY <1>3, <1>8, <1>9 DEF RecordOpen
  <2>2. baseline' = baseline
    BY <1>9 DEF RecordOpen
  <2>3. QED
    BY <1>5, <1>7, <2>1, <2>2
<1>10. ASSUME \/ RecordLoad \/ RecordBackup \/ RecordPrune \/ RecordUnlink
              \/ RecordFail \/ RecordEnd
       PROVE  BaselineInv' /\ PinnedInv'
  <2>1. record.pc' # "done" \/ record.exit' # 0
    <3>1. CASE RecordLoad
      BY <1>3, <1>8, <3>1 DEF RecordLoad
    <3>2. CASE RecordBackup
      BY <1>3, <3>2 DEF RecordBackup
    <3>3. CASE RecordPrune
      BY <1>3, <3>3 DEF RecordPrune
    <3>4. CASE RecordFail
      BY <1>8, <3>4 DEF RecordFail
    <3>5. CASE RecordEnd
      BY <3>5 DEF RecordEnd, Idle
    <3>6. CASE RecordUnlink
      BY <1>3, <3>6 DEF RecordUnlink
    <3>7. QED
      BY <1>10, <3>1, <3>2, <3>3, <3>4, <3>5, <3>6
  <2>2. baseline' = baseline
    BY <1>10 DEF RecordLoad, RecordBackup, RecordPrune, RecordUnlink, RecordFail, RecordEnd
  <2>3. QED
    BY <1>5, <1>7, <2>1, <2>2
<1>11. ASSUME \/ \E r \in Run, s \in StepKinds : CommitStep(r, s)
              \/ \E r \in Run : CommitRow(r)
              \/ \E r, q \in Run : CommitEdge(r, q)
              \/ \E context \in Contexts : GateOpen(context)
              \/ GateSelect \/ GateJudge \/ GateEnd
       PROVE  baseline' = baseline /\ record' = record
  BY <1>11 DEF CommitStep, CommitRow, CommitEdge, GateOpen, GateSelect, GateJudge, GateEnd
<1>12. QED
  BY <1>4, <1>5, <1>6, <1>9, <1>10, <1>11 DEF BaselineNext, Contexts

(* dpk gate: it keeps the file it opened, and its verdict is about it.     *)
LEMMA GateKeeps ==
  ASSUME BaselineSorts, PinInv, BaselineNext
  PROVE  GateFileInv' /\ GateExitInv'
<1>1. /\ db \in Database /\ db' \in Database /\ Grows(db, db')
      /\ baseline \in Database /\ gate.file \in Database
  BY NextGrows DEF PinInv, BaselineTypeOK
<1>2. BaselineInv /\ GateFileInv /\ GateExitInv
  BY DEF PinInv
<1>3. gate \in [pc : GateState, exit : {0, 1, 2}, context : Contexts, file : Database,
                run : Run \cup {NoRun}, golden : Seq(StepKinds), candidate : Seq(StepKinds)]
  BY DEF PinInv, BaselineTypeOK
<1>4. CASE gate' = gate
  <2>1. GateFileInv'
    BY <1>1, <1>2, <1>4, HoldsGrows DEF GateFileInv
  <2>2. GateExitInv'
    BY <1>2, <1>4 DEF GateExitInv, GateExit
  <2>3. QED
    BY <2>1, <2>2
<1>5. ASSUME gate.pc' \notin {"select", "load"} PROVE GateFileInv'
  BY <1>5 DEF GateFileInv
<1>6. ASSUME gate.golden' = <<>> PROVE GateExitInv'
  BY <1>6 DEF GateExitInv, GateExit
<1>7. \A exit : GateDone(exit).pc = "done" /\ GateDone(exit).golden = gate.golden
  BY <1>3 DEF GateDone
<1>8. ASSUME NEW context \in Contexts, GateOpen(context)
      PROVE  GateFileInv' /\ GateExitInv'
  <2>1. gate.pc = "idle" /\ gate.golden = <<>>
    BY <1>2, <1>8 DEF GateOpen, GateExitInv
  <2>2. CASE baseline = NoFile
    <3>1. gate' = GateDone(2)
      BY <1>8, <2>2 DEF GateOpen
    <3>2. gate.pc' = "done" /\ gate.golden' = <<>>
      BY <1>7, <2>1, <3>1
    <3>3. QED
      BY <1>5, <1>6, <3>2
  <2>3. CASE baseline # NoFile
    <3>1. gate.pc' = "select" /\ gate.file' = baseline /\ gate.golden' = <<>>
      BY <1>3, <1>8, <2>1, <2>3 DEF GateOpen
    <3>2. Whole(baseline, db')
      BY <1>1, <1>2, <2>3, HoldsGrows DEF BaselineInv
    <3>3. QED
      BY <1>6, <3>1, <3>2 DEF GateFileInv
  <2>4. QED
    BY <2>2, <2>3
<1>9. CASE GateSelect
  <2> DEFINE selected == Newest(db, gate.context)
             pinned == Newest(gate.file, gate.context)
  <2>1. gate.pc = "select" /\ gate.golden = <<>> /\ db' = db /\ Whole(gate.file, db)
    BY <1>2, <1>9 DEF GateSelect, GateExitInv, GateFileInv
  <2>2. CASE NoRun \in {selected, pinned}
    <3>1. gate' = GateDone(2)
      BY <1>9, <2>2 DEF GateSelect
    <3>2. gate.pc' = "done" /\ gate.golden' = <<>>
      BY <1>7, <2>1, <3>1
    <3>3. QED
      BY <1>5, <1>6, <3>2
  <2>3. CASE NoRun \notin {selected, pinned}
    <3>1. gate' = [gate EXCEPT !.pc = "load", !.run = selected]
      BY <1>9, <2>3 DEF GateSelect
    <3> HIDE DEF selected
    <3>2. /\ gate.pc' = "load" /\ gate.run' = selected /\ gate.golden' = <<>>
          /\ gate.file' = gate.file /\ gate.context' = gate.context
      BY <1>3, <2>1, <3>1
    <3>3. QED
      BY <1>6, <2>1, <2>3, <3>2 DEF GateFileInv
  <2>4. QED
    BY <2>2, <2>3
<1>10. CASE GateJudge
  <2> DEFINE golden == gate.file.events[Newest(gate.file, gate.context)]
             candidate == db.events[gate.run]
  <2>1. /\ gate.pc = "load"
        /\ gate' = [GateDone(Verdict(golden, candidate)) EXCEPT
                      !.golden = golden, !.candidate = candidate]
    BY <1>10 DEF GateJudge
  <2>2. Newest(gate.file, gate.context) \in Run /\ gate.run \in Run
    BY <1>1, <1>2, <1>3, <2>1, NewestIsRow DEF GateFileInv
  <2>3. golden \in Seq(StepKinds) /\ candidate \in Seq(StepKinds)
    BY <1>1, <2>2 DEF Database
  <2> HIDE DEF golden, candidate
  <2>4. /\ gate.pc' = "done" /\ gate.golden' = golden /\ gate.candidate' = candidate
        /\ gate.exit' = Verdict(golden, candidate)
    BY <1>3, <2>1 DEF GateDone
  <2>5. IsExact(golden, candidate)
    BY <2>3, ExactForRuns DEF BaselineSorts
  <2>6. /\ Verdict(golden, candidate) \in {0, 1}
        /\ Verdict(golden, candidate) = 0 <=> SameSteps(golden, candidate, Structural)
    BY <2>5 DEF IsExact, Verdict
  <2>7. GateFileInv'
    BY <1>5, <2>4
  <2>8. GateExitInv'
    BY <2>4, <2>6 DEF GateExitInv, GateExit
  <2>9. QED
    BY <2>7, <2>8
<1>11. CASE GateEnd
  <2>1. gate.pc' = "idle" /\ gate.golden' = <<>>
    BY <1>11 DEF GateEnd, GateIdle
  <2>2. QED
    BY <1>5, <1>6, <2>1
<1>12. ASSUME \/ \E r \in Run, s \in StepKinds : CommitStep(r, s)
              \/ \E r \in Run : CommitRow(r)
              \/ \E r, q \in Run : CommitEdge(r, q)
              \/ \E run \in Run \cup {NoRun}, context \in Contexts : RecordOpen(run, context)
              \/ RecordLoad \/ RecordBackup \/ RecordPrune \/ RecordUnlink
              \/ RecordReplace \/ RecordFail \/ RecordEnd
       PROVE  gate' = gate
  BY <1>12 DEF CommitStep, CommitRow, CommitEdge, RecordOpen, RecordLoad, RecordBackup,
     RecordPrune, RecordUnlink, RecordReplace, RecordFail, RecordEnd
<1>13. QED
  BY <1>4, <1>8, <1>9, <1>10, <1>11, <1>12 DEF BaselineNext, Contexts

LEMMA PinInvKept ==
  ASSUME BaselineSorts, PinInv, [BaselineNext]_baselineVars
  PROVE  PinInv'
<1>1. CASE BaselineNext
  <2>1. BaselineTypeOK'
    BY <1>1, BaselineTyped DEF PinInv
  <2>2. QED
    BY <1>1, <2>1, RecordKeeps, BaselineKeeps, GateKeeps DEF PinInv
<1>2. CASE UNCHANGED baselineVars
  BY <1>2 DEF baselineVars, PinInv, BaselineTypeOK, RecordInv, BaselineInv, GateFileInv,
     PinnedInv, GateExitInv, GateExit
<1>3. QED
  BY <1>1, <1>2

LEMMA PinInvSuffices ==
  ASSUME BaselineSorts, PinInv
  PROVE  PinnedWhole /\ GateExit
<1>1. \A f : Whole(f, db) => WholeFile(f)
  BY DEF Whole, IsRunAlone, Holds, WholeFile
<1>2. QED
  BY <1>1 DEF PinInv, BaselineInv, GateFileInv, PinnedInv, GateExitInv, PinnedWhole

(* dpk record and dpk gate, whatever the agents, other records and kills   *)
(* do between their steps: the baseline is one whole run whenever it is    *)
(* read, and the exit code of the gate is about the run that was pinned    *)
(* when it started.                                                        *)
THEOREM PinnedIsWhole ==
  ASSUME BaselineSorts
  PROVE  BaselineInit /\ [][BaselineNext]_baselineVars => [](PinnedWhole /\ GateExit)
<1>1. BaselineInit => PinInv
  BY BaselineStarts
<1>2. PinInv /\ [BaselineNext]_baselineVars => PinInv'
  BY PinInvKept
<1>3. PinInv => PinnedWhole /\ GateExit
  BY PinInvSuffices
<1>4. QED
  BY <1>1, <1>2, <1>3, PTL

-----------------------------------------------------------------------------
(* The golden_trace fixture.  What a test holds, and what it has claimed.  *)

GoldenSorts ==
  \A s \in BlockSteps : s.priority \in {Telemetry, Diagnostic, Structural, Critical}

Running == {"block", "unlink", "promote", "gate"}
States == {"idle", "block", "unlink", "promote", "gate", "done"}
Outcomes == {"none", "collision", "raised", "error", "recorded",
             "no baseline", "no run", "regression", "passed"}
Names == Name \cup {NoName}
File == [context : Names, steps : Seq(BlockSteps)]

GoldenTypeOK ==
  /\ files \in [Path -> File]
  /\ claimed \subseteq Path
  /\ test \in [pc : States, name : Names, steps : Seq(BlockSteps), outcome : Outcomes]
  /\ reported \subseteq [name : Name, outcome : Outcomes, steps : Seq(BlockSteps)]

(* What was reported of a test is so, and no other test has its file.      *)
HoldsOf(t) ==
  /\ t.outcome = "recorded" => files[PathOf[t.name]] = [context |-> t.name, steps |-> t.steps]
  /\ t.outcome = "passed" => /\ files[PathOf[t.name]] # NoBaseline
                             /\ files[PathOf[t.name]].context = t.name
                             /\ SameSteps(files[PathOf[t.name]].steps, t.steps, Structural)

Keeps(t) == t.outcome \in {"recorded", "passed"} => PathOf[t.name] \in claimed

ReportedInv == \A t \in reported : HoldsOf(t) /\ Keeps(t)

TestInv ==
  /\ test.pc # "idle" => test.name \in Name
  /\ test.pc \in Running =>
       /\ PathOf[test.name] \in claimed
       /\ \A t \in reported :
            t.outcome \in {"recorded", "passed"} => PathOf[t.name] # PathOf[test.name]
  /\ test.pc = "done" => HoldsOf(test) /\ Keeps(test)

GoldenInv == GoldenTypeOK /\ ReportedInv /\ TestInv

LEMMA GoldenSets ==
  /\ NoTest \in [pc : States, name : Names, steps : Seq(BlockSteps), outcome : Outcomes]
  /\ NoBaseline \in File /\ Name \subseteq Names
  /\ \A n \in Name : PathOf[n] \in Path
<1>1. NoName \in Names /\ Name \subseteq Names
  BY DEF Names
<1>2. <<>> \in Seq(BlockSteps)
  OBVIOUS
<1>3. "idle" \in States /\ "none" \in Outcomes
  BY DEF States, Outcomes
<1>4. QED
  BY <1>1, <1>2, <1>3 DEF NoTest, NoBaseline, File, Path

LEMMA GoldenStarts ==
  ASSUME GoldenInit
  PROVE  GoldenInv
<1>1. GoldenTypeOK
  BY GoldenSets DEF GoldenInit, GoldenTypeOK
<1>2. ReportedInv /\ TestInv
  BY DEF GoldenInit, ReportedInv, TestInv, NoTest, Running
<1>3. QED
  BY <1>1, <1>2 DEF GoldenInv

LEMMA GoldenTyped ==
  ASSUME GoldenInv, GoldenNext
  PROVE  GoldenTypeOK'
<1> USE GoldenSets DEF GoldenTypeOK
<1>0. GoldenTypeOK
  BY DEF GoldenInv
<1>1. ASSUME NEW n \in Name, Factory(n) PROVE GoldenTypeOK'
  <2>1. "done" \in States /\ "block" \in States /\ "collision" \in Outcomes
    BY DEF States, Outcomes
  <2>2. test' \in [pc : States, name : Names, steps : Seq(BlockSteps), outcome : Outcomes]
    BY <1>1, <2>1 DEF Factory
  <2>3. QED
    BY <1>0, <1>1, <2>2 DEF Factory
<1>2. ASSUME NEW s \in BlockSteps, BlockStep(s) PROVE GoldenTypeOK'
  <2>1. Append(test.steps, s) \in Seq(BlockSteps)
    BY <1>0
  <2>2. QED
    BY <1>0, <1>2, <2>1 DEF BlockStep
<1>3. ASSUME NEW pc \in States, test' = [test EXCEPT !.pc = pc],
             files' \in [Path -> File], UNCHANGED <<claimed, reported>>
      PROVE  GoldenTypeOK'
  BY <1>0, <1>3
<1>4. ASSUME NEW o \in Outcomes, test' = Outcome(o),
             files' \in [Path -> File], UNCHANGED <<claimed, reported>>
      PROVE  GoldenTypeOK'
  <2>1. "done" \in States
    BY DEF States
  <2>2. QED
    BY <1>0, <1>4, <2>1 DEF Outcome
<1>5. CASE BlockEnds
  <2>1. "unlink" \in States /\ "gate" \in States
    BY DEF States
  <2>2. QED
    BY <1>0, <1>3, <1>5, <2>1 DEF BlockEnds
<1>6. CASE PromoteUnlink
  <2>1. "promote" \in States
    BY DEF States
  <2>2. files' \in [Path -> File]
    BY <1>0, <1>6 DEF PromoteUnlink
  <2>3. QED
    BY <1>3, <1>6, <2>1, <2>2 DEF PromoteUnlink
<1>7. CASE PromoteReplace
  <2>1. "recorded" \in Outcomes
    BY DEF Outcomes
  <2>2. [context |-> test.name, steps |-> test.steps] \in File
    BY <1>0 DEF File
  <2>3. files' \in [Path -> File]
    BY <1>0, <1>7, <2>2 DEF PromoteReplace
  <2>4. QED
    BY <1>4, <1>7, <2>1, <2>3 DEF PromoteReplace
<1>8. CASE BlockRaises \/ PromoteFails
  <2>1. "raised" \in Outcomes /\ "error" \in Outcomes
    BY DEF Outcomes
  <2>2. QED
    BY <1>0, <1>4, <1>8, <2>1 DEF BlockRaises, PromoteFails
<1>9. CASE Gate
  <2>1. \A f, u, n : Gated(f, u, n) \in Outcomes
    BY DEF Gated, Outcomes
  <2>2. QED
    BY <1>0, <1>4, <1>9, <2>1 DEF Gate
<1>10. CASE TestEnds
  <2>1. test.name \in Name
    BY <1>10 DEF TestEnds, GoldenInv, TestInv
  <2>2. QED
    BY <1>0, <1>10, <2>1 DEF TestEnds
<1>11. CASE NewSession
  BY <1>0, <1>11 DEF NewSession
<1>12. QED
  BY <1>1, <1>2, <1>5, <1>6, <1>7, <1>8, <1>9, <1>10, <1>11 DEF GoldenNext

(* The gate lets a block pass that takes the steps of its own baseline.    *)
LEMMA PassedIsSame ==
  ASSUME GoldenSorts, NEW file \in File,
         NEW steps \in Seq(BlockSteps), NEW n, Gated(file, steps, n) = "passed"
  PROVE  file # NoBaseline /\ file.context = n /\ SameSteps(file.steps, steps, Structural)
<1>1. /\ file # NoBaseline /\ file.context = n
      /\ Check(Align(StrictAudit, file.steps, steps, Structural), StrictPolicy)
  BY DEF Gated
<1>2. IsExact(file.steps, steps)
  BY ExactForRuns DEF GoldenSorts, File
<1>3. QED
  BY <1>1, <1>2 DEF IsExact

LEMMA GoldenKept ==
  ASSUME GoldenSorts, GoldenInv, GoldenNext
  PROVE  ReportedInv' /\ TestInv'
<1> USE DEF GoldenInv
<1>1. ASSUME NEW n \in Name, Factory(n) PROVE ReportedInv' /\ TestInv'
  <2>1. \A t \in reported : Keeps(t) /\ Keeps(t)' /\ HoldsOf(t)'
    BY <1>1 DEF Factory, ReportedInv, Keeps, HoldsOf
  <2>2. ReportedInv'
    BY <1>1, <2>1 DEF Factory, ReportedInv
  <2>3. TestInv'
    BY <1>1, <2>1 DEF Factory, Collides, TestInv, Keeps, HoldsOf, NoTest, Running
  <2>4. QED
    BY <2>2, <2>3
<1>2. ASSUME UNCHANGED <<files, claimed, reported>> PROVE ReportedInv'
  BY <1>2 DEF ReportedInv, Keeps, HoldsOf
<1>3. ASSUME NEW s \in BlockSteps, BlockStep(s) PROVE ReportedInv' /\ TestInv'
  BY <1>2, <1>3 DEF BlockStep, TestInv, GoldenTypeOK, Running
<1>4. CASE BlockRaises \/ PromoteFails
  BY <1>2, <1>4 DEF BlockRaises, PromoteFails, Outcome, TestInv, GoldenTypeOK, Running, Keeps,
     HoldsOf
<1>5. CASE BlockEnds
  BY <1>2, <1>5 DEF BlockEnds, TestInv, GoldenTypeOK, Running
<1>6. CASE PromoteUnlink \/ PromoteReplace
  <2>1. /\ test.name \in Name /\ PathOf[test.name] \in claimed
        /\ \A t \in reported :
             t.outcome \in {"recorded", "passed"} => PathOf[t.name] # PathOf[test.name]
        /\ claimed' = claimed /\ reported' = reported
    BY <1>6 DEF PromoteUnlink, PromoteReplace, TestInv, Running
  <2>2. PathOf[test.name] \in DOMAIN files /\ test.name \in Name
    BY <2>1 DEF GoldenTypeOK, Path
  <2>3. \A p \in Path : p # PathOf[test.name] => files'[p] = files[p]
    BY <1>6, <2>2 DEF PromoteUnlink, PromoteReplace, GoldenTypeOK
  <2>4. ASSUME NEW t \in reported PROVE HoldsOf(t)' /\ Keeps(t)'
    <3>1. PathOf[t.name] \in Path
      BY GoldenSets DEF GoldenTypeOK
    <3>2. QED
      BY <2>1, <2>3, <3>1 DEF ReportedInv, HoldsOf, Keeps
  <2>5. ReportedInv'
    BY <2>1, <2>4 DEF ReportedInv
  <2>6. CASE PromoteUnlink
    BY <2>1, <2>5, <2>6 DEF PromoteUnlink, TestInv, GoldenTypeOK, Running
  <2>7. CASE PromoteReplace
    <3>1. /\ test'.pc = "done" /\ test'.outcome = "recorded" /\ test'.name = test.name
          /\ test'.steps = test.steps
      BY <2>7 DEF PromoteReplace, Outcome, GoldenTypeOK
    <3>2. files'[PathOf[test.name]] = [context |-> test.name, steps |-> test.steps]
      BY <2>2, <2>7 DEF PromoteReplace, GoldenTypeOK
    <3>3. QED
      BY <2>1, <2>5, <3>1, <3>2 DEF TestInv, HoldsOf, Keeps, Running
  <2>8. QED
    BY <1>6, <2>6, <2>7
<1>7. CASE Gate
  <2>1. /\ test.name \in Name /\ PathOf[test.name] \in claimed
        /\ UNCHANGED <<files, claimed, reported>>
        /\ PathOf[test.name] \in Path
    BY <1>7 DEF Gate, TestInv, Running, Path
  <2>2. /\ test'.pc = "done" /\ test'.name = test.name /\ test'.steps = test.steps
        /\ test'.outcome = Gated(files[PathOf[test.name]], test.steps, test.name)
    BY <1>7 DEF Gate, Outcome, GoldenTypeOK
  <2>3. test'.outcome # "recorded"
    BY <2>2 DEF Gated
  <2>4. files[PathOf[test.name]] \in File /\ test.steps \in Seq(BlockSteps)
    BY <2>1 DEF GoldenTypeOK
  <2> DEFINE file == files[PathOf[test.name]]
  <2>5. Gated(file, test.steps, test.name) = "passed" =>
          file # NoBaseline /\ file.context = test.name
          /\ SameSteps(file.steps, test.steps, Structural)
    <3> HIDE DEF file
    <3>1. file \in File /\ test.steps \in Seq(BlockSteps)
      BY <2>4 DEF file
    <3>2. QED
      BY <3>1, PassedIsSame
  <2>6. HoldsOf(test)' /\ Keeps(test)'
    BY <2>1, <2>2, <2>3, <2>5 DEF HoldsOf, Keeps
  <2>7. QED
    BY <1>2, <2>1, <2>2, <2>6 DEF TestInv, Running
<1>8. CASE TestEnds
  <2>1. /\ HoldsOf(test) /\ Keeps(test) /\ UNCHANGED <<files, claimed>>
        /\ reported' = reported \cup {[name |-> test.name, outcome |-> test.outcome,
                                       steps |-> test.steps]}
    BY <1>8 DEF TestEnds, TestInv
  <2>2. ReportedInv'
    <3>1. ASSUME NEW t \in reported PROVE HoldsOf(t)' /\ Keeps(t)'
      BY <2>1 DEF ReportedInv, HoldsOf, Keeps
    <3>2. ASSUME NEW t, t.name = test.name, t.outcome = test.outcome, t.steps = test.steps
          PROVE  HoldsOf(t)' /\ Keeps(t)'
      BY <2>1, <3>2 DEF HoldsOf, Keeps
    <3>3. \A t \in reported' : t \in reported \/ (/\ t.name = test.name
                              /\ t.outcome = test.outcome /\ t.steps = test.steps)
      BY <2>1
    <3>4. QED
      BY <3>1, <3>2, <3>3 DEF ReportedInv
  <2>3. TestInv'
    BY <1>8 DEF TestEnds, TestInv, NoTest, Running
  <2>4. QED
    BY <2>2, <2>3
<1>9. CASE NewSession
  BY <1>9 DEF NewSession, ReportedInv, TestInv, NoTest, Running
<1>10. QED
  BY <1>1, <1>3, <1>4, <1>5, <1>6, <1>7, <1>8, <1>9 DEF GoldenNext

(* golden_trace, whatever the names are sanitized to, whichever tests      *)
(* raise and wherever the session is killed: a baseline that was reported  *)
(* recorded holds that block until the session ends, and a block that      *)
(* passed takes the steps of a baseline of its own name that is there.     *)
THEOREM ReportsAreTrue ==
  ASSUME GoldenSorts
  PROVE  GoldenInit /\ [][GoldenNext]_goldenVars => []ReportsHold
<1>1. GoldenInit => GoldenInv
  BY GoldenStarts
<1>2. GoldenInv /\ [GoldenNext]_goldenVars => GoldenInv'
  <2>1. GoldenInv /\ GoldenNext => GoldenInv'
    BY GoldenTyped, GoldenKept DEF GoldenInv
  <2>2. GoldenInv /\ UNCHANGED goldenVars => GoldenInv'
    BY DEF goldenVars, GoldenInv, GoldenTypeOK, ReportedInv, TestInv, HoldsOf, Keeps
  <2>3. QED
    BY <2>1, <2>2
<1>3. GoldenInv => ReportsHold
  BY DEF GoldenInv, ReportedInv, HoldsOf, ReportsHold
<1>4. QED
  BY <1>1, <1>2, <1>3, PTL
-----------------------------------------------------------------------------
(* Recursions over a sequence, when each step is a function.               *)
Follows(f, N, a, step) ==
  f[0] = a /\ \A n \in 1 .. N : f[n] = step[<<n, f[n - 1]>>]

LEMMA RecursionExists ==
  ASSUME NEW N \in Nat, NEW S, NEW a \in S, NEW step \in [(1 .. N) \X S -> S]
  PROVE  \E f \in [0 .. N -> S] : Follows(f, N, a, step)
<1> DEFINE Traces(m) == {f \in [0 .. m -> S] :
                           f[0] = a /\ \A n \in 1 .. m : f[n] = step[<<n, f[n - 1]>>]}
           T == {m \in Nat : m <= N => Traces(m) # {}}
<1>1. 0 \in T
  <2>1. [n \in 0 .. 0 |-> a] \in Traces(0)
    OBVIOUS
  <2>2. QED
    BY <2>1
<1>2. ASSUME NEW m \in T PROVE m + 1 \in T
  <2>1. m \in Nat
    OBVIOUS
  <2> SUFFICES ASSUME m + 1 <= N PROVE Traces(m + 1) # {}
    BY <2>1
  <2>2. PICK f \in Traces(m) : TRUE
    BY <2>1
  <2> DEFINE g == [n \in 0 .. m + 1 |-> IF n = m + 1 THEN step[<<m + 1, f[m]>>] ELSE f[n]]
  <2>3. /\ f \in [0 .. m -> S] /\ f[0] = a
        /\ \A n \in 1 .. m : f[n] = step[<<n, f[n - 1]>>]
    OBVIOUS
  <2>4. f[m] \in S /\ m + 1 \in 1 .. N /\ <<m + 1, f[m]>> \in (1 .. N) \X S
    BY <2>1, <2>3
  <2>5. step[<<m + 1, f[m]>>] \in S
    BY <2>4
  <2>6. g \in [0 .. m + 1 -> S] /\ g[0] = a
    BY <2>1, <2>3, <2>5
  <2>7. ASSUME NEW n \in 1 .. m + 1 PROVE g[n] = step[<<n, g[n - 1]>>]
    <3>1. n - 1 \in 0 .. m /\ n - 1 # m + 1 /\ g[n - 1] = f[n - 1]
      <4>1. n - 1 \in 0 .. m
        BY <2>1
      <4>2. n - 1 # m + 1 /\ n - 1 \in 0 .. m + 1
        BY <2>1, <4>1
      <4>3. QED
        BY <4>1, <4>2
    <3>2. CASE n = m + 1
      <4>1. n - 1 = m /\ m + 1 \in 0 .. m + 1
        BY <2>1, <3>2
      <4>2. g[n] = step[<<m + 1, f[m]>>]
        BY <3>2, <4>1
      <4>3. QED
        BY <3>1, <3>2, <4>1, <4>2
    <3>3. CASE n # m + 1
      <4>1. n \in 1 .. m /\ n \in 0 .. m + 1
        BY <2>1, <3>3
      <4>2. f[n] = step[<<n, f[n - 1]>>]
        BY <2>3, <4>1
      <4>3. g[n] = f[n]
        BY <3>3, <4>1
      <4>4. QED
        BY <3>1, <4>2, <4>3
    <3>4. QED
      BY <3>2, <3>3
  <2>8. g \in Traces(m + 1)
    BY <2>6, <2>7
  <2>9. QED
    BY <2>8
<1>3. T = Nat
  <2> HIDE DEF T
  <2>1. T \in SUBSET Nat
    BY DEF T
  <2>2. QED
    BY <1>1, <1>2, <2>1, SetInduction
<1>4. Traces(N) # {}
  BY <1>3
<1>5. QED
  BY <1>4 DEF Follows

-----------------------------------------------------------------------------
(* The edges of a trace, and what they anchor.                             *)

Link == [source : Int, target : Int, type : DOMAIN TypeOrder]

Ends(e) == {e.source, e.target}

Steady(edges, S) == \A i \in 1 .. Len(edges) : edges[i].source \in S <=> edges[i].target \in S

(* One pass visits the edges in their order.                               *)
LEMMA PassTrace ==
  ASSUME NEW edges \in Seq(Link), NEW A \in SUBSET Int
  PROVE  \E f \in [0 .. Len(edges) -> SUBSET Int] :
           /\ f[0] = A /\ AnchorPass(edges, A) = f[Len(edges)]
           /\ \A n \in 1 .. Len(edges) : f[n] = WithEnds(f[n - 1], edges[n])
<1> DEFINE N == Len(edges)
           S == SUBSET Int
           step == [p \in (1 .. N) \X S |-> WithEnds(p[2], edges[p[1]])]
           Solves(f) == f = [i \in 0 .. N |-> IF i = 0 THEN A
                                              ELSE WithEnds(f[i - 1], edges[i])]
           upto == CHOOSE f : Solves(f)
<1>1. N \in Nat /\ \A n \in 1 .. N : edges[n] \in Link
  OBVIOUS
<1>2. \A n \in 1 .. N, B \in S : WithEnds(B, edges[n]) \in S
  BY <1>1 DEF WithEnds, Link
<1>3. step \in [(1 .. N) \X S -> S]
  BY <1>2
<1>4. \A n \in 1 .. N, B \in S : step[<<n, B>>] = WithEnds(B, edges[n])
  OBVIOUS
<1> HIDE DEF step
<1>5a. PICK f \in [0 .. N -> S] : Follows(f, N, A, step)
  <2>1. A \in S
    OBVIOUS
  <2> HIDE DEF N, S
  <2>2. QED
    BY <1>1, <1>3, <2>1, RecursionExists
<1>5. f[0] = A /\ \A n \in 1 .. N : f[n] = step[<<n, f[n - 1]>>]
  BY <1>5a DEF Follows
<1>6. ASSUME NEW n \in 1 .. N PROVE f[n] = WithEnds(f[n - 1], edges[n])
  <2>1. n - 1 \in 0 .. N
    BY <1>1
  <2>2. f[n - 1] \in S
    BY <2>1
  <2>3. f[n] = step[<<n, f[n - 1]>>]
    BY <1>5
  <2>4. step[<<n, f[n - 1]>>] = WithEnds(f[n - 1], edges[n])
    BY <1>4, <2>2
  <2>5. QED
    BY <2>3, <2>4
<1>7. Solves(f)
  BY <1>1, <1>5, <1>6
<1>8. Solves(upto)
  BY <1>7
<1>9. AnchorPass(edges, A) = upto[N]
  BY DEF AnchorPass
<1> HIDE DEF upto
<1>10. /\ upto[0] = A
       /\ \A n \in 1 .. N : upto[n] = WithEnds(upto[n - 1], edges[n])
       /\ DOMAIN upto = 0 .. N
  BY <1>1, <1>8
<1> DEFINE T == {n \in Nat : n <= N => upto[n] \in S}
<1>11. T = Nat
  <2>1. 0 \in T
    BY <1>10
  <2>2. ASSUME NEW n \in T PROVE n + 1 \in T
    <3>1. n \in Nat
      OBVIOUS
    <3> SUFFICES ASSUME n + 1 <= N PROVE upto[n + 1] \in S
      BY <3>1
    <3>2. n + 1 \in 1 .. N /\ upto[n] \in S /\ upto[n + 1] = WithEnds(upto[n], edges[n + 1])
      BY <1>1, <1>10, <3>1
    <3>3. QED
      BY <1>2, <3>2
  <2> HIDE DEF T
  <2>3. T \in SUBSET Nat
    BY DEF T
  <2>4. QED
    BY <2>1, <2>2, <2>3, SetInduction
<1>12. upto \in [0 .. N -> S]
  BY <1>1, <1>8, <1>10, <1>11
<1>13. QED
  BY <1>9, <1>10, <1>12

LEMMA PassAnchors ==
  ASSUME NEW edges \in Seq(Link), NEW A \in SUBSET Int
  PROVE  /\ AnchorPass(edges, A) \in SUBSET Int /\ A \subseteq AnchorPass(edges, A)
         /\ \A i \in 1 .. Len(edges) :
              Ends(edges[i]) \cap A # {} => Ends(edges[i]) \subseteq AnchorPass(edges, A)
         /\ \A S : A \subseteq S /\ Steady(edges, S) => AnchorPass(edges, A) \subseteq S
<1> DEFINE N == Len(edges)
<1>1. PICK f \in [0 .. N -> SUBSET Int] :
        /\ f[0] = A /\ AnchorPass(edges, A) = f[N]
        /\ \A n \in 1 .. N : f[n] = WithEnds(f[n - 1], edges[n])
  BY PassTrace
<1>2. N \in Nat
  OBVIOUS
<1> DEFINE Done(n) ==
             /\ A \subseteq f[n]
             /\ \A i \in 1 .. n : Ends(edges[i]) \cap A # {} => Ends(edges[i]) \subseteq f[n]
             /\ \A S : A \subseteq S /\ Steady(edges, S) => f[n] \subseteq S
           T == {n \in Nat : n <= N => Done(n)}
<1>3. 0 \in T
  BY <1>1
<1>4. ASSUME NEW n \in T PROVE n + 1 \in T
  <2>1. n \in Nat
    OBVIOUS
  <2> SUFFICES ASSUME n + 1 <= N PROVE Done(n + 1)
    BY <2>1
  <2>2. Done(n) /\ n + 1 \in 1 .. N
    BY <1>2, <2>1
  <2>3. f[n + 1] = WithEnds(f[n], edges[n + 1])
    BY <1>1, <2>1, <2>2
  <2>4. /\ f[n] \subseteq f[n + 1]
        /\ Ends(edges[n + 1]) \cap f[n] # {} => Ends(edges[n + 1]) \subseteq f[n + 1]
        /\ \A x \in f[n + 1] : x \in f[n] \/ (/\ x \in Ends(edges[n + 1])
                                              /\ Ends(edges[n + 1]) \cap f[n] # {})
    BY <2>3 DEF WithEnds, Ends
  <2>5. A \subseteq f[n + 1]
    BY <2>2, <2>4
  <2>6. ASSUME NEW i \in 1 .. n + 1, Ends(edges[i]) \cap A # {}
        PROVE  Ends(edges[i]) \subseteq f[n + 1]
    <3>1. CASE i = n + 1
      BY <2>2, <2>4, <2>6, <3>1
    <3>2. CASE i # n + 1
      <4>1. i \in 1 .. n
        BY <2>1, <3>2
      <4>2. QED
        BY <2>2, <2>4, <2>6, <4>1
    <3>3. QED
      BY <3>1, <3>2
  <2>7. ASSUME NEW S, A \subseteq S, Steady(edges, S)
        PROVE  f[n + 1] \subseteq S
    <3>1. f[n] \subseteq S
      BY <2>2, <2>7
    <3>2. Ends(edges[n + 1]) \cap S # {} => Ends(edges[n + 1]) \subseteq S
      BY <2>2, <2>7 DEF Steady, Ends
    <3>3. QED
      BY <2>4, <3>1, <3>2
  <2>8. QED
    BY <2>5, <2>6, <2>7
<1>5. T = Nat
  <2> HIDE DEF T
  <2>1. T \in SUBSET Nat
    BY DEF T
  <2>2. QED
    BY <1>3, <1>4, <2>1, SetInduction
<1>6. Done(N)
  BY <1>2, <1>5
<1>7. f[N] \in SUBSET Int
  BY <1>2
<1>8. QED
  BY <1>1, <1>6, <1>7

LEMMA RoundTrace ==
  ASSUME NEW edges \in Seq(Link), NEW A \in SUBSET Int
  PROVE  \E g \in [0 .. Len(edges) -> SUBSET Int] :
           /\ g[0] = A /\ Anchored(edges, A) = g[Len(edges)]
           /\ \A n \in 1 .. Len(edges) : g[n] = AnchorPass(edges, g[n - 1])
<1> DEFINE N == Len(edges)
           S == SUBSET Int
           step == [p \in (1 .. N) \X S |-> AnchorPass(edges, p[2])]
           Solves(f) == f = [n \in 0 .. N |-> IF n = 0 THEN A
                                              ELSE AnchorPass(edges, f[n - 1])]
           after == CHOOSE f : Solves(f)
<1>1. N \in Nat
  OBVIOUS
<1>2. \A B \in S : AnchorPass(edges, B) \in S
  BY PassAnchors
<1>3. step \in [(1 .. N) \X S -> S]
  BY <1>2
<1>4. \A n \in 1 .. N, B \in S : step[<<n, B>>] = AnchorPass(edges, B)
  OBVIOUS
<1> HIDE DEF step
<1>5. PICK f \in [0 .. N -> S] : Follows(f, N, A, step)
  <2>1. A \in S
    OBVIOUS
  <2> HIDE DEF N, S
  <2>2. QED
    BY <1>1, <1>3, <2>1, RecursionExists
<1>6. f[0] = A /\ \A n \in 1 .. N : f[n] = step[<<n, f[n - 1]>>]
  BY <1>5 DEF Follows
<1>7. \A n \in 1 .. N : f[n] = AnchorPass(edges, f[n - 1])
  BY <1>1, <1>4, <1>6
<1>8. Solves(f)
  BY <1>1, <1>6, <1>7
<1>9. Solves(after)
  BY <1>8
<1>10. Anchored(edges, A) = after[N]
  BY DEF Anchored
<1> HIDE DEF after
<1>11. /\ after[0] = A
       /\ \A n \in 1 .. N : after[n] = AnchorPass(edges, after[n - 1])
       /\ DOMAIN after = 0 .. N
  BY <1>1, <1>9
<1> DEFINE T == {n \in Nat : n <= N => after[n] \in S}
<1>12. T = Nat
  <2>1. 0 \in T
    BY <1>11
  <2>2. ASSUME NEW n \in T PROVE n + 1 \in T
    <3>1. n \in Nat
      OBVIOUS
    <3> SUFFICES ASSUME n + 1 <= N PROVE after[n + 1] \in S
      BY <3>1
    <3>2. /\ n + 1 \in 1 .. N /\ after[n] \in S
          /\ after[n + 1] = AnchorPass(edges, after[n])
      BY <1>1, <1>11, <3>1
    <3>3. QED
      BY <1>2, <3>2
  <2> HIDE DEF T
  <2>3. T \in SUBSET Nat
    BY DEF T
  <2>4. QED
    BY <2>1, <2>2, <2>3, SetInduction
<1>13. after \in [0 .. N -> S]
  BY <1>1, <1>9, <1>11, <1>12
<1>14. QED
  BY <1>10, <1>11, <1>13

Both(edges, B) == {i \in 1 .. Len(edges) : Ends(edges[i]) \subseteq B}

(* As long as the anchored ends are not closed under the edges, a round    *)
(* uses up an edge, so they are after as many rounds as there are edges.   *)
LEMMA AnchoredIsClosure ==
  ASSUME NEW edges \in Seq(Link), NEW A \in SUBSET Int
  PROVE  /\ Anchored(edges, A) \in SUBSET Int /\ A \subseteq Anchored(edges, A)
         /\ Steady(edges, Anchored(edges, A))
         /\ \A S : A \subseteq S /\ Steady(edges, S) => Anchored(edges, A) \subseteq S
<1> DEFINE N == Len(edges)
<1>1. PICK g \in [0 .. N -> SUBSET Int] :
        /\ g[0] = A /\ Anchored(edges, A) = g[N]
        /\ \A n \in 1 .. N : g[n] = AnchorPass(edges, g[n - 1])
  BY RoundTrace
<1>2. N \in Nat
  OBVIOUS
<1>3. \A B : /\ IsFiniteSet(Both(edges, B)) /\ Cardinality(Both(edges, B)) \in Nat
             /\ Both(edges, B) \subseteq 1 .. N
  <2>1. IsFiniteSet(1 .. N)
    BY <1>2, FS_Interval
  <2>2. \A B : Both(edges, B) \subseteq 1 .. N
    BY DEF Both
  <2>3. QED
    BY <2>1, <2>2, FS_Subset, FS_CardinalityType
<1> DEFINE Used(B, n) == Steady(edges, B) \/ Cardinality(Both(edges, B)) >= n
           Done(n) == /\ A \subseteq g[n]
                      /\ \A S : A \subseteq S /\ Steady(edges, S) => g[n] \subseteq S
                      /\ Used(g[n], n)
           T == {n \in Nat : n <= N => Done(n)}
<1>4. 0 \in T
  BY <1>1, <1>3
<1>5. ASSUME NEW n \in T PROVE n + 1 \in T
  <2>1. n \in Nat
    OBVIOUS
  <2> SUFFICES ASSUME n + 1 <= N PROVE Done(n + 1)
    BY <2>1
  <2>2. Done(n) /\ n + 1 \in 1 .. N /\ g[n] \in SUBSET Int
    BY <1>2, <2>1
  <2>3. g[n + 1] = AnchorPass(edges, g[n])
    BY <1>1, <2>1, <2>2
  <2>4. /\ g[n] \subseteq g[n + 1]
        /\ \A i \in 1 .. N : Ends(edges[i]) \cap g[n] # {} => Ends(edges[i]) \subseteq g[n + 1]
        /\ \A S : g[n] \subseteq S /\ Steady(edges, S) => g[n + 1] \subseteq S
    BY <2>2, <2>3, PassAnchors
  <2>5. CASE Steady(edges, g[n])
    <3>1. g[n + 1] = g[n]
      BY <2>4, <2>5
    <3>2. QED
      BY <2>2, <2>5, <3>1
  <2>6. CASE ~ Steady(edges, g[n])
    <3>1. PICK i \in 1 .. N : ~ (edges[i].source \in g[n] <=> edges[i].target \in g[n])
      BY <2>6 DEF Steady
    <3>2. i \in Both(edges, g[n + 1]) /\ i \notin Both(edges, g[n])
      BY <2>4, <3>1 DEF Both, Ends
    <3>3. Both(edges, g[n]) \subseteq Both(edges, g[n + 1]) \ {i}
      BY <2>4, <3>2 DEF Both
    <3>4. Cardinality(Both(edges, g[n])) >= n
      BY <2>2, <2>6
    <3>5. /\ IsFiniteSet(Both(edges, g[n + 1]) \ {i})
          /\ Cardinality(Both(edges, g[n + 1]) \ {i}) = Cardinality(Both(edges, g[n + 1])) - 1
      <4>1. PICK U : U = Both(edges, g[n + 1])
        OBVIOUS
      <4>2. IsFiniteSet(U) /\ i \in U
        BY <1>3, <3>2, <4>1
      <4>3. IsFiniteSet(U \ {i}) /\ Cardinality(U \ {i}) = Cardinality(U) - 1
        BY <4>2, FS_RemoveElement
      <4>4. QED
        BY <4>1, <4>3
    <3>6. Cardinality(Both(edges, g[n])) <= Cardinality(Both(edges, g[n + 1]) \ {i})
      BY <3>3, <3>5, FS_Subset
    <3>7. Cardinality(Both(edges, g[n + 1])) >= n + 1
      BY <1>3, <2>1, <3>4, <3>5, <3>6
    <3>8. QED
      BY <2>2, <2>4, <3>7
  <2>7. QED
    BY <2>5, <2>6
<1>6. T = Nat
  <2> HIDE DEF T
  <2>1. T \in SUBSET Nat
    BY DEF T
  <2>2. QED
    BY <1>4, <1>5, <2>1, SetInduction
<1>7. Done(N) /\ g[N] \in SUBSET Int
  BY <1>2, <1>6
<1>8. Steady(edges, g[N])
  <2>1. CASE Cardinality(Both(edges, g[N])) >= N
    <3>1. IsFiniteSet(1 .. N) /\ Cardinality(1 .. N) = N
      <4>1. 1 \in Int /\ N \in Int
        BY <1>2
      <4>2. /\ IsFiniteSet(1 .. N)
            /\ Cardinality(1 .. N) = IF 1 > N THEN 0 ELSE N - 1 + 1
        BY <4>1, FS_Interval
      <4>3. QED
        BY <1>2, <4>2
    <3>2. Both(edges, g[N]) = 1 .. N
      BY <1>2, <1>3, <2>1, <3>1, FS_Subset
    <3>3. QED
      BY <3>2 DEF Both, Steady, Ends
  <2>2. QED
    BY <1>7, <2>1
<1>9. QED
  BY <1>1, <1>7, <1>8

LEMMA DanglingIs ==
  ASSUME NEW trace, trace.edges \in Seq(Link), NEW ids \in SUBSET Int,
         ids = {e.id : e \in ToSet(trace.events)}
  PROVE  ~ Dangling(trace) <=> Connected(ToSet(trace.edges), ids)
<1> DEFINE edges == trace.edges
           E == ToSet(edges)
           B == Anchored(edges, ids)
           ends == UNION {{e.source, e.target} : e \in E}
           Closed(S) == \A e \in E : e.source \in S <=> e.target \in S
<1>1. edges \in Seq(Link) /\ E = {edges[i] : i \in 1 .. Len(edges)} /\ E \subseteq Link
  BY DEF ToSet
<1>2. /\ B \in SUBSET Int /\ ids \subseteq B /\ Steady(edges, B)
      /\ \A S : ids \subseteq S /\ Steady(edges, S) => B \subseteq S
  BY <1>1, AnchoredIsClosure
<1>3. Dangling(trace) <=> \E e \in E : e.source \notin B
  BY DEF Dangling
<1>4. Connected(E, ids) <=>
        \A S \in SUBSET ends : Closed(S) => S = {} \/ S \cap ids # {}
  BY DEF Connected
<1>5. \A S : Steady(edges, S) <=> Closed(S)
  BY <1>1 DEF Steady
<1>6. \A x : x \in ends <=> \E e \in E : x = e.source \/ x = e.target
  OBVIOUS
<1> HIDE DEF B, E, ends
<1>7. ASSUME ~ Dangling(trace), NEW S \in SUBSET ends, Closed(S), S \cap ids = {}
      PROVE  S = {}
  <2>1. \A x \in ends : x \in B
    BY <1>2, <1>3, <1>5, <1>6, <1>7
  <2>2. Closed(B \ S)
    BY <1>2, <1>5, <1>7
  <2>3. B \subseteq B \ S
    BY <1>2, <1>5, <1>7, <2>2
  <2>4. QED
    BY <2>1, <2>3
<1>8. ASSUME Connected(E, ids) PROVE ~ Dangling(trace)
  <2>1. Closed(ends \ B) /\ ends \ B \in SUBSET ends /\ (ends \ B) \cap ids = {}
    BY <1>2, <1>5, <1>6
  <2>2. ends \ B = {}
    BY <1>4, <1>8, <2>1
  <2>3. QED
    BY <1>3, <1>6, <2>2
<1>9. QED
  BY <1>4, <1>7, <1>8 DEF E

-----------------------------------------------------------------------------
(* What is signed is what is well formed.                                  *)

LEMMA MinExists ==
  ASSUME NEW S \in SUBSET Nat, S # {}
  PROVE  Min(S) \in S
<1> DEFINE T == {n \in Nat : \A k \in 0 .. n : k \notin S}
<1>1. \E x \in S : \A y \in S : x <= y
  <2> SUFFICES ASSUME \A x \in S : \E y \in S : ~ (x <= y) PROVE FALSE
    OBVIOUS
  <2>1. 0 \in T
    OBVIOUS
  <2>2. ASSUME NEW n \in T PROVE n + 1 \in T
    <3>1. n \in Nat /\ \A k \in 0 .. n : k \notin S
      OBVIOUS
    <3>2. n + 1 \notin S
      BY <3>1
    <3>3. QED
      BY <3>1, <3>2
  <2>3. T = Nat
    <3> HIDE DEF T
    <3>1. T \in SUBSET Nat
      BY DEF T
    <3>2. QED
      BY <2>1, <2>2, <3>1, SetInduction
  <2>4. PICK x \in S : x \in Nat
    OBVIOUS
  <2>5. \A k \in 0 .. x : k \notin S
    BY <2>3, <2>4
  <2>6. QED
    BY <2>4, <2>5
<1>2. QED
  BY <1>1 DEF Min

LEMMA NoFirst ==
  ASSUME NEW n \in Nat, NEW failures, DOMAIN failures = 1 .. n
  PROVE  FirstOf(failures) = NoFailure <=> \A i \in 1 .. n : failures[i] = NoFailure
<1> DEFINE failing == {i \in DOMAIN failures : failures[i] # NoFailure}
<1>1. CASE failing = {}
  BY <1>1 DEF FirstOf
<1>2. CASE failing # {}
  <2>1. failing \in SUBSET Nat
    OBVIOUS
  <2>2. FirstOf(failures) = failures[Min(failing)]
    BY <1>2 DEF FirstOf
  <2>3. Min(failing) \in failing
    BY <1>2, <2>1, MinExists
  <2>4. QED
    BY <1>2, <2>2, <2>3
<1>3. QED
  BY <1>1, <1>2

Sound(trace, i) ==
  LET e == trace.events[i]
  IN  /\ e.run = trace.run /\ e.context = trace.context /\ e.data # BadPayload
      /\ \A j \in 1 .. i - 1 : trace.events[j].id # e.id
      /\ i > 1 => ~ (e.seq <= trace.events[i - 1].seq)

LEMMA EventIsSound ==
  ASSUME NEW trace, NEW i
  PROVE  EventFailure(trace, i) = NoFailure <=> Sound(trace, i)
BY DEF EventFailure, Sound, NoFailure

LEMMA SoundInOrder ==
  ASSUME NEW E, \A e \in E : e.id \in Int /\ e.seq \in Int,
         NEW trace, trace.events \in Seq(E)
  PROVE  (\A i \in 1 .. Len(trace.events) : Sound(trace, i)) <=>
            /\ \A e \in ToSet(trace.events) :
                 e.run = trace.run /\ e.context = trace.context /\ e.data # BadPayload
            /\ InOrder(trace.events)
<1> DEFINE events == trace.events
           N == Len(events)
<1>1. /\ N \in Nat /\ DOMAIN events = 1 .. N
      /\ \A i \in 1 .. N : events[i].seq \in Int
  OBVIOUS
<1>2. ToSet(events) = {events[i] : i \in 1 .. N}
  BY <1>1 DEF ToSet
<1>3. ASSUME \A i \in 1 .. N : Sound(trace, i) PROVE InOrder(events)
  <2> DEFINE Below(n) == \A i \in 1 .. n - 1 : events[i].seq < events[n].seq
             T == {n \in Nat : n \in 1 .. N => Below(n)}
  <2>1. \A i \in 1 .. N : i > 1 => events[i - 1].seq < events[i].seq
    BY <1>1, <1>3 DEF Sound
  <2>2. 0 \in T
    OBVIOUS
  <2>3. ASSUME NEW n \in T PROVE n + 1 \in T
    <3>1. n \in Nat
      OBVIOUS
    <3> SUFFICES ASSUME n + 1 \in 1 .. N, NEW i \in 1 .. n
                 PROVE  events[i].seq < events[n + 1].seq
      BY <3>1
    <3>2. n \in 1 .. N /\ n + 1 > 1 /\ (n + 1) - 1 = n
      BY <1>1, <3>1
    <3>3. events[n].seq < events[n + 1].seq
      BY <2>1, <3>2
    <3>4. Below(n)
      BY <3>2
    <3>5. i \in 1 .. N
      BY <1>1, <3>1
    <3>6. CASE i = n
      BY <3>3, <3>6
    <3>7. CASE i # n
      <4>1. events[i].seq < events[n].seq
        BY <3>1, <3>4, <3>7
      <4>2. events[i].seq \in Int /\ events[n].seq \in Int /\ events[n + 1].seq \in Int
        BY <1>1, <3>2, <3>5
      <4>3. QED
        BY <3>3, <4>1, <4>2
    <3>8. QED
      BY <3>6, <3>7
  <2>4. T = Nat
    <3> HIDE DEF T
    <3>1. T \in SUBSET Nat
      BY DEF T
    <3>2. QED
      BY <2>2, <2>3, <3>1, SetInduction
  <2>5. ASSUME NEW j \in 1 .. N PROVE Below(j)
    <3> HIDE DEF Below
    <3>1. j \in T
      BY <1>1, <2>4
    <3>2. QED
      BY <3>1
  <2> HIDE DEF T
  <2>6. ASSUME NEW i \in 1 .. N, NEW j \in 1 .. N, i < j
        PROVE  events[i].id # events[j].id /\ events[i].seq < events[j].seq
    <3>1. i \in 1 .. j - 1
      BY <2>6
    <3>2. QED
      BY <1>3, <2>5, <3>1 DEF Sound
  <2>7. QED
    BY <1>1, <2>6 DEF InOrder
<1>4. ASSUME InOrder(events), NEW i \in 1 .. N
      PROVE  /\ \A j \in 1 .. i - 1 : events[j].id # events[i].id
             /\ i > 1 => ~ (events[i].seq <= events[i - 1].seq)
  <2>1. \A j \in 1 .. i - 1 : j \in 1 .. N /\ j < i
    BY <1>1
  <2>2. i > 1 => i - 1 \in 1 .. N /\ i - 1 < i
    BY <1>1
  <2>3. \A j \in 1 .. N : j < i =>
          events[j].id # events[i].id /\ events[j].seq < events[i].seq
    BY <1>1, <1>4 DEF InOrder
  <2>4. QED
    BY <1>1, <2>1, <2>2, <2>3
<1>5. QED
  BY <1>2, <1>3, <1>4 DEF Sound

LEMMA EdgesAreSound ==
  ASSUME NEW edges \in Seq(Link)
  PROVE  (\A i \in 1 .. Len(edges) : EdgeFailure(edges, i) = NoFailure) <=>
            (\A e \in ToSet(edges) : e.source # e.target) /\ IsInjective(edges)
<1>1. /\ Len(edges) \in Nat /\ DOMAIN edges = 1 .. Len(edges)
      /\ ToSet(edges) = {edges[i] : i \in 1 .. Len(edges)}
  BY DEF ToSet
<1>2. \A i : EdgeFailure(edges, i) = NoFailure <=>
               /\ edges[i].source # edges[i].target
               /\ \A j \in 1 .. i - 1 : edges[j] # edges[i]
  BY DEF EdgeFailure, NoFailure
<1>3. ASSUME \A i \in 1 .. Len(edges) : \A j \in 1 .. i - 1 : edges[j] # edges[i]
      PROVE  IsInjective(edges)
  <2> SUFFICES ASSUME NEW i \in 1 .. Len(edges), NEW j \in 1 .. Len(edges), i # j
               PROVE  edges[i] # edges[j]
    BY <1>1 DEF IsInjective
  <2>1. j \in 1 .. i - 1 \/ i \in 1 .. j - 1
    OBVIOUS
  <2>2. QED
    BY <1>3, <2>1
<1>4. ASSUME IsInjective(edges), NEW i \in 1 .. Len(edges), NEW j \in 1 .. i - 1
      PROVE  edges[j] # edges[i]
  <2>1. j \in 1 .. Len(edges) /\ j # i
    BY <1>1
  <2>2. QED
    BY <1>1, <1>4, <2>1 DEF IsInjective
<1>5. QED
  BY <1>1, <1>2, <1>3, <1>4

LEMMA SignsWellFormed ==
  ASSUME NEW E, \A e \in E : e.id \in Int /\ e.seq \in Int,
         NEW trace, trace.events \in Seq(E), trace.edges \in Seq(Link)
  PROVE  Signs(trace) <=> WellFormed(trace)
<1> DEFINE N == Len(trace.events)
           M == Len(trace.edges)
           event == FirstOf([i \in DOMAIN trace.events |-> EventFailure(trace, i)])
           edge == FirstOf([i \in DOMAIN trace.edges |-> EdgeFailure(trace.edges, i)])
           ids == {e.id : e \in ToSet(trace.events)}
<1>1. /\ N \in Nat /\ M \in Nat /\ DOMAIN trace.events = 1 .. N
      /\ DOMAIN trace.edges = 1 .. M /\ ToSet(trace.events) \subseteq E
  BY DEF ToSet
<1>2. event = NoFailure <=> \A i \in 1 .. N : Sound(trace, i)
  <2> DEFINE failures == [i \in DOMAIN trace.events |-> EventFailure(trace, i)]
  <2>1. DOMAIN failures = 1 .. N /\ \A i \in 1 .. N : failures[i] = EventFailure(trace, i)
    BY <1>1
  <2>2. event = FirstOf(failures)
    OBVIOUS
  <2> HIDE DEF N, failures, event
  <2>3. event = NoFailure <=> \A i \in 1 .. N : failures[i] = NoFailure
    BY <1>1, <2>1, <2>2, NoFirst
  <2>4. QED
    BY <2>1, <2>3, EventIsSound
<1>3. edge = NoFailure <=> \A i \in 1 .. M : EdgeFailure(trace.edges, i) = NoFailure
  <2> DEFINE failures == [i \in DOMAIN trace.edges |-> EdgeFailure(trace.edges, i)]
  <2>1. DOMAIN failures = 1 .. M /\ \A i \in 1 .. M : failures[i] = EdgeFailure(trace.edges, i)
    BY <1>1
  <2>2. edge = FirstOf(failures)
    OBVIOUS
  <2> HIDE DEF M, failures, edge
  <2>3. edge = NoFailure <=> \A i \in 1 .. M : failures[i] = NoFailure
    BY <1>1, <2>1, <2>2, NoFirst
  <2>4. QED
    BY <2>1, <2>3
<1>4. ~ Dangling(trace) <=> Connected(ToSet(trace.edges), ids)
  BY <1>1, DanglingIs
<1>5. Signs(trace) <=> event = NoFailure /\ edge = NoFailure /\ ~ Dangling(trace)
  BY DEF Signs, StructuralFailure, NoFailure
<1>6. QED
  BY <1>2, <1>3, <1>4, <1>5, SoundInOrder, EdgesAreSound DEF WellFormed

-----------------------------------------------------------------------------
(* The canonical order of the edges: the k-th is the one with k - 1 edges  *)
(* before it, so it is told by the set of the edges.                       *)

Rank(E, e) == Cardinality({f \in E : EdgeBefore(f, e)})

LEMMA TypesAreOrdered ==
  /\ \A t \in DOMAIN TypeOrder : TypeOrder[t] \in Int
  /\ \A t, u \in DOMAIN TypeOrder : TypeOrder[t] = TypeOrder[u] => t = u
BY DEF TypeOrder

LEMMA EdgeOrder ==
  /\ \A e \in Link : ~ EdgeBefore(e, e)
  /\ \A e, f, g \in Link : EdgeBefore(e, f) /\ EdgeBefore(f, g) => EdgeBefore(e, g)
  /\ \A e, f \in Link : e # f => EdgeBefore(e, f) \/ EdgeBefore(f, e)
<1>1. \A e \in Link : /\ e.source \in Int /\ e.target \in Int /\ e.type \in DOMAIN TypeOrder
                      /\ TypeOrder[e.type] \in Int
                      /\ e = [source |-> e.source, target |-> e.target, type |-> e.type]
  BY TypesAreOrdered DEF Link
<1>2. \A e \in Link : ~ EdgeBefore(e, e)
  BY <1>1 DEF EdgeBefore
<1>3. \A e, f, g \in Link : EdgeBefore(e, f) /\ EdgeBefore(f, g) => EdgeBefore(e, g)
  BY <1>1 DEF EdgeBefore
<1>4. ASSUME NEW e \in Link, NEW f \in Link, e # f
      PROVE  EdgeBefore(e, f) \/ EdgeBefore(f, e)
  <2>1. e.source # f.source \/ e.target # f.target \/ e.type # f.type
    BY <1>1, <1>4
  <2>2. e.type # f.type => TypeOrder[e.type] # TypeOrder[f.type]
    BY <1>1, TypesAreOrdered
  <2>3. QED
    BY <1>1, <2>1, <2>2 DEF EdgeBefore
<1>5. QED
  BY <1>2, <1>3, <1>4

LEMMA RankOrder ==
  ASSUME NEW E \in SUBSET Link, IsFiniteSet(E)
  PROVE  /\ \A e \in E : Rank(E, e) \in Nat /\ Rank(E, e) < Cardinality(E)
         /\ \A e, f \in E : e # f => Rank(E, e) # Rank(E, f)
<1> DEFINE Before(e) == {f \in E : EdgeBefore(f, e)}
<1>1. \A e \in E : /\ Before(e) \in SUBSET (E \ {e}) /\ IsFiniteSet(Before(e))
                   /\ Cardinality(Before(e)) \in Nat
                   /\ Cardinality(Before(e)) <= Cardinality(E) - 1
  <2> SUFFICES ASSUME NEW e \in E
               PROVE  /\ Before(e) \in SUBSET (E \ {e}) /\ IsFiniteSet(Before(e))
                      /\ Cardinality(Before(e)) \in Nat
                      /\ Cardinality(Before(e)) <= Cardinality(E) - 1
    OBVIOUS
  <2>1. Before(e) \in SUBSET (E \ {e})
    BY EdgeOrder
  <2> HIDE DEF Before
  <2>2. IsFiniteSet(E \ {e}) /\ Cardinality(E \ {e}) = Cardinality(E) - 1
    BY FS_RemoveElement
  <2>3. QED
    BY <2>1, <2>2, FS_Subset, FS_CardinalityType
<1>2. Cardinality(E) \in Nat
  BY FS_CardinalityType
<1>3. ASSUME NEW e \in E, NEW f \in E, EdgeBefore(e, f)
      PROVE  Cardinality(Before(e)) < Cardinality(Before(f))
  <2>1. e \in Before(f) /\ Before(e) \subseteq Before(f) \ {e}
    BY <1>3, EdgeOrder
  <2>2. /\ IsFiniteSet(Before(e)) /\ IsFiniteSet(Before(f))
        /\ Cardinality(Before(e)) \in Nat /\ Cardinality(Before(f)) \in Nat
    BY <1>1
  <2> HIDE DEF Before
  <2>3. /\ IsFiniteSet(Before(f) \ {e})
        /\ Cardinality(Before(f) \ {e}) = Cardinality(Before(f)) - 1
    BY <2>1, <2>2, FS_RemoveElement
  <2>4. Cardinality(Before(e)) <= Cardinality(Before(f) \ {e})
    BY <2>1, <2>3, FS_Subset
  <2>5. QED
    BY <2>2, <2>3, <2>4
<1>4. \A e \in E : Rank(E, e) = Cardinality(Before(e))
  BY DEF Rank
<1> HIDE DEF Before
<1>5. ASSUME NEW e \in E, NEW f \in E, e # f PROVE Rank(E, e) # Rank(E, f)
  <2>1. EdgeBefore(e, f) \/ EdgeBefore(f, e)
    BY <1>5, EdgeOrder
  <2>2. Rank(E, e) < Rank(E, f) \/ Rank(E, f) < Rank(E, e)
    BY <1>3, <1>4, <2>1
  <2>3. Rank(E, e) \in Nat /\ Rank(E, f) \in Nat
    BY <1>1, <1>4
  <2>4. QED
    BY <2>2, <2>3
<1>6. QED
  BY <1>1, <1>2, <1>4, <1>5

LEMMA EarlierIsRank ==
  ASSUME NEW edges \in Seq(Link), IsInjective(edges), NEW i \in 1 .. Len(edges)
  PROVE  Cardinality(Earlier(edges, i)) = Rank(ToSet(edges), edges[i])
<1> DEFINE N == Len(edges)
           E == ToSet(edges)
           before == {f \in E : EdgeBefore(f, edges[i])}
           at == [j \in Earlier(edges, i) |-> edges[j]]
<1>1. /\ N \in Nat /\ DOMAIN edges = 1 .. N /\ E = {edges[j] : j \in 1 .. N}
      /\ \A j \in 1 .. N : edges[j] \in Link
  BY DEF ToSet
<1>2. \A j, k \in 1 .. N : edges[j] = edges[k] => j = k
  BY <1>1 DEF IsInjective
<1>3. Earlier(edges, i) = {j \in 1 .. N : EdgeBefore(edges[j], edges[i])}
  BY <1>1, <1>2 DEF Earlier
<1>4. IsFiniteSet(Earlier(edges, i))
  <2>1. IsFiniteSet(1 .. N)
    BY <1>1, FS_Interval
  <2>2. QED
    BY <1>3, <2>1, FS_Subset
<1> HIDE DEF E
<1>5. at \in [Earlier(edges, i) -> before]
  BY <1>1, <1>3
<1>6. at \in Surjection(Earlier(edges, i), before)
  <2>1. ASSUME NEW f \in before PROVE \E j \in Earlier(edges, i) : at[j] = f
    <3>1. PICK j \in 1 .. N : f = edges[j]
      BY <1>1
    <3>2. QED
      BY <1>3, <3>1
  <2>2. QED
    BY <1>5, <2>1 DEF Surjection
<1>7. at \in Injection(Earlier(edges, i), before)
  BY <1>2, <1>3, <1>5 DEF Injection, IsInjective
<1> HIDE DEF at, before
<1>8. Cardinality(before) = Cardinality(Earlier(edges, i))
  BY <1>4, <1>6, <1>7, FS_Surjection
<1>9. QED
  BY <1>8 DEF before, Rank, E

LEMMA SortedByRank ==
  ASSUME NEW edges \in Seq(Link), IsInjective(edges)
  PROVE  /\ DOMAIN SortedEdges(edges) = 1 .. Len(edges)
         /\ IsFiniteSet(ToSet(edges)) /\ ToSet(edges) \subseteq Link
         /\ Cardinality(ToSet(edges)) = Len(edges)
         /\ \A k \in 1 .. Len(edges) : /\ SortedEdges(edges)[k] \in ToSet(edges)
                                       /\ Rank(ToSet(edges), SortedEdges(edges)[k]) = k - 1
<1> DEFINE N == Len(edges)
           D == 1 .. N
           E == ToSet(edges)
           at(k) == CHOOSE i \in D : Cardinality(Earlier(edges, i)) = k - 1
           rank == [i \in D |-> Rank(E, edges[i]) + 1]
<1>1. /\ N \in Nat /\ DOMAIN edges = D /\ E = {edges[j] : j \in D}
      /\ \A j \in D : edges[j] \in Link
  BY DEF ToSet
<1>2. \A j, k \in D : edges[j] = edges[k] => j = k
  BY <1>1 DEF IsInjective
<1>3. IsFiniteSet(D) /\ Cardinality(D) = N
  <2>1. 1 \in Int /\ N \in Int
    BY <1>1
  <2>2. IsFiniteSet(D) /\ Cardinality(D) = IF 1 > N THEN 0 ELSE N - 1 + 1
    BY <2>1, FS_Interval
  <2>3. QED
    BY <1>1, <2>2
<1>4. E \subseteq Link
  BY <1>1
<1>5. IsFiniteSet(E) /\ Cardinality(E) = N
  <2>1. edges \in Surjection(D, E) /\ edges \in Injection(D, E)
    BY <1>1, <1>2 DEF Surjection, Injection, IsInjective
  <2> HIDE DEF D, E, N
  <2>2. QED
    BY <1>3, <2>1, FS_Surjection
<1>6. \A i \in D : Cardinality(Earlier(edges, i)) = Rank(E, edges[i])
  BY EarlierIsRank
<1> HIDE DEF E
<1>7. /\ \A i \in D : Rank(E, edges[i]) \in Nat /\ Rank(E, edges[i]) < N
      /\ \A i, j \in D : i # j => Rank(E, edges[i]) # Rank(E, edges[j])
  <2>1. /\ \A e \in E : Rank(E, e) \in Nat /\ Rank(E, e) < N
        /\ \A e, f \in E : e # f => Rank(E, e) # Rank(E, f)
    BY <1>4, <1>5, RankOrder
  <2>2. \A i \in D : edges[i] \in E
    BY <1>1
  <2> HIDE DEF D, N
  <2>3. QED
    BY <1>2, <2>1, <2>2
<1>8. rank \in [D -> D]
  BY <1>1, <1>7
<1>9. rank \in Injection(D, D)
  BY <1>7, <1>8 DEF Injection, IsInjective
<1>10. \A k \in D : \E i \in D : rank[i] = k
  <2> HIDE DEF D, rank
  <2>1. rank \in Surjection(D, D)
    BY <1>3, <1>9, FS_Injection
  <2>2. QED
    BY <2>1 DEF Surjection
<1>11. ASSUME NEW k \in D PROVE at(k) \in D /\ Cardinality(Earlier(edges, at(k))) = k - 1
  <2>1. PICK i \in D : rank[i] = k
    BY <1>10
  <2>2. Cardinality(Earlier(edges, i)) = k - 1
    BY <1>6, <1>7, <2>1
  <2>3. QED
    BY <2>2
<1>12. SortedEdges(edges) = [k \in D |-> edges[at(k)]]
  BY <1>1 DEF SortedEdges
<1> HIDE DEF at, D
<1>13. QED
  BY <1>1, <1>4, <1>5, <1>6, <1>11, <1>12 DEF D, E

LEMMA SortedIsCanonical ==
  ASSUME NEW s \in Seq(Link), NEW u \in Seq(Link), IsInjective(s), IsInjective(u)
  PROVE  SortedEdges(s) = SortedEdges(u) <=> Len(s) = Len(u) /\ ToSet(s) = ToSet(u)
<1> DEFINE S == ToSet(s)
           U == ToSet(u)
<1>1. /\ DOMAIN SortedEdges(s) = 1 .. Len(s) /\ IsFiniteSet(S) /\ S \subseteq Link
      /\ Cardinality(S) = Len(s)
      /\ \A k \in 1 .. Len(s) : SortedEdges(s)[k] \in S /\ Rank(S, SortedEdges(s)[k]) = k - 1
  BY SortedByRank
<1>2. /\ DOMAIN SortedEdges(u) = 1 .. Len(u) /\ IsFiniteSet(U) /\ U \subseteq Link
      /\ Cardinality(U) = Len(u)
      /\ \A k \in 1 .. Len(u) : SortedEdges(u)[k] \in U /\ Rank(U, SortedEdges(u)[k]) = k - 1
  BY SortedByRank
<1>3. /\ \A e \in S : Rank(S, e) \in Nat /\ Rank(S, e) < Len(s)
      /\ \A e, f \in S : e # f => Rank(S, e) # Rank(S, f)
  BY <1>1, RankOrder
<1>4. /\ \A e \in U : Rank(U, e) \in Nat /\ Rank(U, e) < Len(u)
      /\ \A e, f \in U : e # f => Rank(U, e) # Rank(U, f)
  BY <1>2, RankOrder
<1>5. Len(s) \in Nat /\ Len(u) \in Nat
  OBVIOUS
<1> HIDE DEF S, U
<1>6. S = {SortedEdges(s)[k] : k \in 1 .. Len(s)}
  <2>1. ASSUME NEW e \in S PROVE \E k \in 1 .. Len(s) : SortedEdges(s)[k] = e
    <3>1. Rank(S, e) + 1 \in 1 .. Len(s)
      BY <1>3, <1>5
    <3>2. Rank(S, SortedEdges(s)[Rank(S, e) + 1]) = Rank(S, e)
      BY <1>1, <1>3, <3>1
    <3>3. SortedEdges(s)[Rank(S, e) + 1] = e
      BY <1>1, <1>3, <3>1, <3>2
    <3>4. QED
      BY <3>1, <3>3
  <2>2. QED
    BY <1>1, <2>1
<1>7. U = {SortedEdges(u)[k] : k \in 1 .. Len(u)}
  <2>1. ASSUME NEW e \in U PROVE \E k \in 1 .. Len(u) : SortedEdges(u)[k] = e
    <3>1. Rank(U, e) + 1 \in 1 .. Len(u)
      BY <1>4, <1>5
    <3>2. Rank(U, SortedEdges(u)[Rank(U, e) + 1]) = Rank(U, e)
      BY <1>2, <1>4, <3>1
    <3>3. SortedEdges(u)[Rank(U, e) + 1] = e
      BY <1>2, <1>4, <3>1, <3>2
    <3>4. QED
      BY <3>1, <3>3
  <2>2. QED
    BY <1>2, <2>1
<1>8. ASSUME SortedEdges(s) = SortedEdges(u) PROVE Len(s) = Len(u) /\ S = U
  <2>1. 1 .. Len(s) = 1 .. Len(u)
    BY <1>1, <1>2, <1>8
  <2>2. Len(s) = Len(u)
    BY <1>5, <2>1
  <2>3. QED
    BY <1>6, <1>7, <1>8, <2>2
<1>9. ASSUME Len(s) = Len(u), S = U PROVE SortedEdges(s) = SortedEdges(u)
  <2>1. \A k \in 1 .. Len(s) : SortedEdges(s)[k] = SortedEdges(u)[k]
    BY <1>1, <1>2, <1>3, <1>9
  <2>2. /\ SortedEdges(s) = [k \in 1 .. Len(s) |-> SortedEdges(s)[k]]
        /\ SortedEdges(u) = [k \in 1 .. Len(u) |-> SortedEdges(u)[k]]
    <3>1. /\ SortedEdges(s) = [k \in DOMAIN SortedEdges(s) |-> SortedEdges(s)[k]]
          /\ SortedEdges(u) = [k \in DOMAIN SortedEdges(u) |-> SortedEdges(u)[k]]
      BY DEF SortedEdges
    <3>2. QED
      BY <1>1, <1>2, <3>1
  <2>3. QED
    BY <1>9, <2>1, <2>2
<1>10. QED
  BY <1>8, <1>9 DEF S, U

-----------------------------------------------------------------------------
(* What a document binds.                                                  *)

IsEnvelope(a) ==
  a = [version |-> a.version, run |-> a.run, context |-> a.context, events |-> a.events,
       edges |-> a.edges, digest |-> a.digest, issued |-> a.issued, keyId |-> a.keyId,
       public |-> a.public, signature |-> a.signature]

Unsigned(trace, public, issued) ==
  [version |-> SchemaVersion, run |-> trace.run, context |-> trace.context,
   events |-> Len(trace.events), edges |-> Len(trace.edges), digest |-> TraceDigest(trace),
   issued |-> issued, keyId |-> KeyId(public), public |-> public, signature |-> NoFailure]

LEMMA AttestIs ==
  ASSUME NEW trace, NEW public, NEW issued, NEW a, a = Attest(trace, public, issued)
  PROVE  /\ a.version = SchemaVersion /\ a.run = trace.run /\ a.context = trace.context
         /\ a.events = Len(trace.events) /\ a.edges = Len(trace.edges)
         /\ a.digest = TraceDigest(trace) /\ a.issued = issued
         /\ a.keyId = KeyId(public) /\ a.public = public
         /\ a.signature = Sign(public, Unsigned(trace, public, issued))
         /\ SigningPayload(a) = Unsigned(trace, public, issued)
         /\ IsEnvelope(a)
<1> DEFINE u == Unsigned(trace, public, issued)
<1>1. SigningPayload(u) = u
  BY DEF Unsigned, SigningPayload
<1>2. a = [u EXCEPT !.signature = Sign(public, SigningPayload(u))]
  BY DEF Attest, Unsigned
<1>3. a = [u EXCEPT !.signature = Sign(public, u)]
  BY <1>1, <1>2
<1> DEFINE r(s) == [version |-> SchemaVersion, run |-> trace.run, context |-> trace.context,
                    events |-> Len(trace.events), edges |-> Len(trace.edges),
                    digest |-> TraceDigest(trace), issued |-> issued,
                    keyId |-> KeyId(public), public |-> public, signature |-> s]
<1>4. u = r(NoFailure)
  BY DEF Unsigned
<1>5. \A s, t : [r(s) EXCEPT !.signature = t] = r(t)
  OBVIOUS
<1>6. \A s : /\ r(s).version = SchemaVersion /\ r(s).run = trace.run
             /\ r(s).context = trace.context /\ r(s).events = Len(trace.events)
             /\ r(s).edges = Len(trace.edges) /\ r(s).digest = TraceDigest(trace)
             /\ r(s).issued = issued /\ r(s).keyId = KeyId(public) /\ r(s).public = public
             /\ r(s).signature = s
  OBVIOUS
<1>7. \A s : IsEnvelope(r(s))
  BY DEF IsEnvelope
<1> HIDE DEF r
<1>8. a = r(Sign(public, u))
  BY <1>3, <1>4, <1>5
<1>9. SigningPayload(a) = u
  BY <1>4, <1>5, <1>8 DEF SigningPayload
<1>10. QED
  BY <1>6, <1>7, <1>8, <1>9

Passes(a, trace, trusted) ==
  /\ a.version = SchemaVersion /\ a.run = trace.run /\ a.context = trace.context
  /\ Signs(trace) /\ a.events = Len(trace.events) /\ a.edges = Len(trace.edges)
  /\ a.digest = TraceDigest(trace) /\ a.keyId = KeyId(a.public)
  /\ trusted = <<>> \/ a.keyId \in trusted[1]
  /\ a.signature = Sign(a.public, SigningPayload(a))

LEMMA VerifyIs ==
  ASSUME NEW a, NEW trace, NEW trusted
  PROVE  Verify(a, trace, trusted) = NoFailure <=> Passes(a, trace, trusted)
<1>1. KeyFailure(a, trusted) = NoFailure <=>
        /\ a.keyId = KeyId(a.public)
        /\ trusted = <<>> \/ a.keyId \in trusted[1]
        /\ a.signature = Sign(a.public, SigningPayload(a))
  BY DEF KeyFailure, NoFailure
<1>2. ~ Signs(trace) => StructuralFailure(trace) # NoFailure
  BY DEF Signs
<1>3. QED
  BY <1>1, <1>2 DEF Verify, Passes, NoFailure

LEMMA SameEdgesInjective ==
  ASSUME NEW s \in Seq(Link), NEW u \in Seq(Link), IsInjective(s),
         Len(s) = Len(u), ToSet(s) = ToSet(u)
  PROVE  IsInjective(u)
<1> DEFINE D == 1 .. Len(u)
           U == ToSet(u)
<1>1. IsFiniteSet(U) /\ Cardinality(U) = Len(u)
  BY SortedByRank
<1>2. IsFiniteSet(D) /\ Cardinality(D) = Len(u)
  <2>1. 1 \in Int /\ Len(u) \in Int /\ Len(u) \in Nat
    OBVIOUS
  <2>2. IsFiniteSet(D) /\ Cardinality(D) = IF 1 > Len(u) THEN 0 ELSE Len(u) - 1 + 1
    BY <2>1, FS_Interval
  <2>3. QED
    BY <2>1, <2>2
<1>3. DOMAIN u = D /\ u \in Surjection(D, U)
  <2>1. /\ DOMAIN u = D /\ u = [i \in D |-> u[i]] /\ U = {u[i] : i \in D}
    BY DEF ToSet
  <2>2. QED
    BY <2>1 DEF Surjection
<1> HIDE DEF D, U
<1>4. u \in Injection(D, U)
  BY <1>1, <1>2, <1>3, FS_Surjection
<1>5. QED
  BY <1>3, <1>4 DEF Injection, IsInjective

LEMMA SameDigest ==
  ASSUME NEW E, \A e \in E : e.id \in Int /\ e.seq \in Int,
         NEW trace, trace.events \in Seq(E), trace.edges \in Seq(Link),
         NEW other, other.events \in Seq(E), other.edges \in Seq(Link),
         Signs(trace)
  PROVE  /\ SameTrace(trace, other) => Signs(other)
         /\ Signs(other) => (SameTrace(trace, other) <=> TraceDigest(trace) = TraceDigest(other))
<1>1. WellFormed(trace) /\ IsInjective(trace.edges)
  BY SignsWellFormed DEF WellFormed
<1>2. ASSUME SameTrace(trace, other) PROVE Signs(other)
  <2>1. IsInjective(other.edges)
    BY <1>1, <1>2, SameEdgesInjective DEF SameTrace
  <2>2. WellFormed(other)
    BY <1>1, <1>2, <2>1 DEF SameTrace, WellFormed
  <2>3. QED
    BY <2>2, SignsWellFormed
<1>3. TraceDigest(trace) = TraceDigest(other) <=>
        /\ trace.run = other.run /\ trace.context = other.context
        /\ trace.events = other.events
        /\ SortedEdges(trace.edges) = SortedEdges(other.edges)
  BY DEF TraceDigest, CanonicalTrace
<1>4. ASSUME Signs(other)
      PROVE  SortedEdges(trace.edges) = SortedEdges(other.edges) <=>
               /\ Len(trace.edges) = Len(other.edges)
               /\ ToSet(trace.edges) = ToSet(other.edges)
  <2>1. IsInjective(other.edges)
    BY <1>4, SignsWellFormed DEF WellFormed
  <2>2. QED
    BY <1>1, <2>1, SortedIsCanonical
<1>5. QED
  BY <1>2, <1>3, <1>4 DEF SameTrace

LEMMA DocumentBinds ==
  ASSUME NEW E, \A e \in E : e.id \in Int /\ e.seq \in Int,
         NEW trace, trace.events \in Seq(E), trace.edges \in Seq(Link),
         NEW other, other.events \in Seq(E), other.edges \in Seq(Link),
         NEW envelope, IsEnvelope(envelope), NEW public, NEW issued, NEW trusted
  PROVE  Binds(trace, other, envelope, public, issued, trusted)
<1>1. PICK a : a = Attest(trace, public, issued)
  OBVIOUS
<1>2. Signs(trace) <=> WellFormed(trace)
  BY SignsWellFormed
<1>3. ASSUME Signs(trace)
      PROVE  Verify(a, other, trusted) = NoFailure
               <=> /\ SameTrace(trace, other)
                   /\ trusted = <<>> \/ KeyId(public) \in trusted[1]
  <2>1. /\ a.version = SchemaVersion /\ a.run = trace.run /\ a.context = trace.context
        /\ a.events = Len(trace.events) /\ a.edges = Len(trace.edges)
        /\ a.digest = TraceDigest(trace)
        /\ a.keyId = KeyId(public) /\ a.public = public
        /\ a.signature = Sign(a.public, SigningPayload(a))
    BY <1>1, AttestIs
  <2>2. Passes(a, other, trusted) <=>
          /\ trace.run = other.run /\ trace.context = other.context /\ Signs(other)
          /\ Len(trace.events) = Len(other.events) /\ Len(trace.edges) = Len(other.edges)
          /\ TraceDigest(trace) = TraceDigest(other)
          /\ trusted = <<>> \/ KeyId(public) \in trusted[1]
    BY <2>1 DEF Passes
  <2>3. /\ SameTrace(trace, other) => Signs(other)
        /\ Signs(other) => (SameTrace(trace, other)
                              <=> TraceDigest(trace) = TraceDigest(other))
    BY <1>3, SameDigest
  <2>4. QED
    BY <2>2, <2>3, VerifyIs DEF SameTrace
<1>4. ASSUME envelope.signature = a.signature, Verify(envelope, other, trusted) = NoFailure
      PROVE  envelope = a
  <2> DEFINE u == Unsigned(trace, public, issued)
  <2>1. a.signature = Sign(public, u) /\ SigningPayload(a) = u /\ IsEnvelope(a)
    BY <1>1, AttestIs
  <2>2. envelope.signature = Sign(envelope.public, SigningPayload(envelope))
    BY <1>4, VerifyIs DEF Passes
  <2>3. SigningPayload(envelope) = SigningPayload(a)
    BY <1>4, <2>1, <2>2 DEF Sign
  <2> HIDE DEF u
  <2>4. /\ envelope.version = a.version /\ envelope.run = a.run
        /\ envelope.context = a.context /\ envelope.events = a.events
        /\ envelope.edges = a.edges /\ envelope.digest = a.digest
        /\ envelope.issued = a.issued /\ envelope.keyId = a.keyId
        /\ envelope.public = a.public
    <3>1. \A e : IsEnvelope(e) =>
            SigningPayload(e) =
              [version |-> e.version, run |-> e.run, context |-> e.context,
               events |-> e.events, edges |-> e.edges, digest |-> e.digest,
               issued |-> e.issued, keyId |-> e.keyId, public |-> e.public,
               signature |-> NoFailure]
      BY DEF IsEnvelope, SigningPayload
    <3>2. QED
      BY <2>1, <2>3, <3>1
  <2>5. QED
    BY <1>4, <2>1, <2>4 DEF IsEnvelope
<1>5. QED
  BY <1>1, <1>2, <1>3, <1>4 DEF Binds

-----------------------------------------------------------------------------
(* The run that is signed, and the edits of it.                            *)

IsStored(e) ==
  /\ e = [id |-> e.id, run |-> e.run, context |-> e.context, seq |-> e.seq, data |-> e.data]
  /\ e.id \in Int /\ e.seq \in Int

SigningSorts == (\A e \in Event : IsStored(e)) /\ Edge \subseteq Link

Exported ==
  Event \cup {[e EXCEPT !.data = "edited"] : e \in Event}
        \cup {[e EXCEPT !.seq = @ + 5] : e \in Event}

TraceOver(E) == [run : {RunId}, context : {ContextId}, events : Seq(E), edges : Seq(Link)]

LEMMA ExportedTyped ==
  ASSUME SigningSorts
  PROVE  /\ \A e \in Exported : e.id \in Int /\ e.seq \in Int
         /\ Event \subseteq Exported
         /\ \A e \in Event : /\ [e EXCEPT !.data = "edited"] \in Exported
                             /\ [e EXCEPT !.seq = @ + 5] \in Exported
<1>1. ASSUME NEW e \in Event
      PROVE  /\ e.id \in Int /\ e.seq \in Int
             /\ [e EXCEPT !.data = "edited"].id \in Int
             /\ [e EXCEPT !.data = "edited"].seq \in Int
             /\ [e EXCEPT !.seq = @ + 5].id \in Int
             /\ [e EXCEPT !.seq = @ + 5].seq \in Int
  BY DEF SigningSorts, IsStored
<1>2. QED
  BY <1>1 DEF Exported

LEMMA RemoveKeeps ==
  ASSUME NEW S, NEW s \in Seq(S), NEW i \in DOMAIN s
  PROVE  RemoveAt(s, i) \in Seq(S)
<1>1. Len(s) \in Nat /\ i \in 1 .. Len(s)
  OBVIOUS
<1>2. SubSeq(s, 1, i - 1) \in Seq(S) /\ SubSeq(s, i + 1, Len(s)) \in Seq(S)
  BY <1>1
<1>3. QED
  BY <1>2 DEF RemoveAt

LEMMA ReplaceKeeps ==
  ASSUME NEW S, NEW s \in Seq(S), NEW i \in DOMAIN s, NEW x \in S
  PROVE  [s EXCEPT ![i] = x] \in Seq(S)
OBVIOUS

LEMMA ReverseKeeps ==
  ASSUME NEW S, NEW s \in Seq(S)
  PROVE  Reverse(s) \in Seq(S)
BY DEF Reverse

LEMMA EditsAreTraces ==
  ASSUME SigningSorts, NEW trace \in TraceOver(Event),
         NEW other \in {trace, [trace EXCEPT !.edges = Reverse(@)]}
                         \cup EventEdits(trace) \cup EdgeEdits(trace)
  PROVE  other.events \in Seq(Exported) /\ other.edges \in Seq(Link)
<1>1. /\ trace.events \in Seq(Event) /\ trace.events \in Seq(Exported)
      /\ trace.edges \in Seq(Link)
      /\ \A i \in DOMAIN trace.events : trace.events[i] \in Event
      /\ \A i \in DOMAIN trace.edges : trace.edges[i] \in Link
  <2>1. trace.events \in Seq(Event) /\ trace.edges \in Seq(Link)
    BY DEF TraceOver
  <2>2. trace.events \in Seq(Exported)
    BY <2>1, ExportedTyped
  <2>3. QED
    BY <2>1, <2>2
<1>2. \A x : /\ [trace EXCEPT !.events = x].events = x
             /\ [trace EXCEPT !.events = x].edges = trace.edges
             /\ [trace EXCEPT !.edges = x].edges = x
             /\ [trace EXCEPT !.edges = x].events = trace.events
  BY DEF TraceOver
<1>3. CASE other \in {trace, [trace EXCEPT !.edges = Reverse(@)]}
  <2>1. Reverse(trace.edges) \in Seq(Link)
    BY <1>1, ReverseKeeps
  <2>2. CASE other = trace
    BY <1>1, <2>2
  <2>3. CASE other = [trace EXCEPT !.edges = Reverse(trace.edges)]
    <3>1. other.edges = Reverse(trace.edges) /\ other.events = trace.events
      BY <1>2, <2>3
    <3>2. QED
      BY <1>1, <2>1, <3>1
  <2>4. QED
    BY <1>3, <2>2, <2>3
<1>4. CASE other \in EventEdits(trace)
  <2>1. PICK i \in DOMAIN trace.events :
          \/ other = [trace EXCEPT !.events = RemoveAt(@, i)]
          \/ other = [trace EXCEPT !.events[i].data = "edited"]
          \/ other = [trace EXCEPT !.events[i].seq = @ + 5]
    BY <1>4 DEF EventEdits
  <2>2. CASE other = [trace EXCEPT !.events = RemoveAt(@, i)]
    BY <1>1, <1>2, <2>2, RemoveKeeps
  <2>3. CASE other = [trace EXCEPT !.events[i].data = "edited"]
    <3>1. [trace.events[i] EXCEPT !.data = "edited"] \in Exported
      BY <1>1, ExportedTyped
    <3>2. [trace.events EXCEPT ![i] = [trace.events[i] EXCEPT !.data = "edited"]]
            \in Seq(Exported)
      BY <1>1, <3>1, ReplaceKeeps
    <3>3. other = [trace EXCEPT !.events = [trace.events EXCEPT ![i] =
                                             [trace.events[i] EXCEPT !.data = "edited"]]]
      BY <2>3
    <3>4. QED
      BY <1>1, <1>2, <3>2, <3>3
  <2>4. CASE other = [trace EXCEPT !.events[i].seq = @ + 5]
    <3>1. [trace.events[i] EXCEPT !.seq = @ + 5] \in Exported
      BY <1>1, ExportedTyped
    <3>2. [trace.events EXCEPT ![i] = [trace.events[i] EXCEPT !.seq = @ + 5]]
            \in Seq(Exported)
      BY <1>1, <3>1, ReplaceKeeps
    <3>3. other = [trace EXCEPT !.events = [trace.events EXCEPT ![i] =
                                             [trace.events[i] EXCEPT !.seq = @ + 5]]]
      BY <2>4
    <3>4. QED
      BY <1>1, <1>2, <3>2, <3>3
  <2>5. QED
    BY <2>1, <2>2, <2>3, <2>4
<1>5. CASE other \in EdgeEdits(trace)
  <2> DEFINE added == [source |-> 1, target |-> 3, type |-> "VERIFIED_BY"]
             turned(e) == [e EXCEPT !.source = e.target, !.target = e.source]
             renamed(e) == [e EXCEPT !.type = "CORRECTED_BY"]
  <2>1. \/ \E i \in DOMAIN trace.edges :
             \/ other = [trace EXCEPT !.edges = RemoveAt(@, i)]
             \/ other = [trace EXCEPT !.edges = [trace.edges EXCEPT ![i] =
                                                  turned(trace.edges[i])]]
             \/ other = [trace EXCEPT !.edges = [trace.edges EXCEPT ![i] =
                                                  renamed(trace.edges[i])]]
        \/ other = [trace EXCEPT !.edges = Append(@, added)]
    BY <1>5 DEF EdgeEdits
  <2>2. added \in Link /\ \A e \in Link : turned(e) \in Link /\ renamed(e) \in Link
    <3>1. {"CORRECTED_BY", "VERIFIED_BY"} \subseteq DOMAIN TypeOrder
      BY DEF TypeOrder
    <3>2. added \in Link
      BY <3>1 DEF Link
    <3>3. ASSUME NEW e \in Link PROVE turned(e) \in Link /\ renamed(e) \in Link
      <4>1. PICK u \in Int, v \in Int, w \in DOMAIN TypeOrder :
              e = [source |-> u, target |-> v, type |-> w]
        BY DEF Link
      <4>2. turned(e) = [source |-> v, target |-> u, type |-> w]
        <5>1. turned(e) = [[e EXCEPT !.source = e.target] EXCEPT !.target = e.source]
          OBVIOUS
        <5>2. e.source = u /\ e.target = v
          BY <4>1
        <5>3. [e EXCEPT !.source = v] = [source |-> v, target |-> v, type |-> w]
          BY <4>1
        <5>4. [[source |-> v, target |-> v, type |-> w] EXCEPT !.target = u] =
                [source |-> v, target |-> u, type |-> w]
          OBVIOUS
        <5> HIDE DEF turned
        <5>5. QED
          BY <5>1, <5>2, <5>3, <5>4
      <4>3. renamed(e) = [source |-> u, target |-> v, type |-> "CORRECTED_BY"]
        BY <4>1
      <4> HIDE DEF turned, renamed
      <4>4. QED
        BY <3>1, <4>1, <4>2, <4>3 DEF Link
    <3>4. QED
      BY <3>2, <3>3
  <2> HIDE DEF added, turned, renamed
  <2>3. Append(trace.edges, added) \in Seq(Link)
    BY <1>1, <2>2, AppendProperties
  <2>4. \A i \in DOMAIN trace.edges :
          /\ RemoveAt(trace.edges, i) \in Seq(Link)
          /\ [trace.edges EXCEPT ![i] = turned(trace.edges[i])] \in Seq(Link)
          /\ [trace.edges EXCEPT ![i] = renamed(trace.edges[i])] \in Seq(Link)
    <3> TAKE i \in DOMAIN trace.edges
    <3>1. turned(trace.edges[i]) \in Link /\ renamed(trace.edges[i]) \in Link
      BY <1>1, <2>2
    <3>2. RemoveAt(trace.edges, i) \in Seq(Link)
      BY <1>1, RemoveKeeps
    <3>3. [trace.edges EXCEPT ![i] = turned(trace.edges[i])] \in Seq(Link)
      BY <1>1, <3>1, ReplaceKeeps
    <3>4. [trace.edges EXCEPT ![i] = renamed(trace.edges[i])] \in Seq(Link)
      BY <1>1, <3>1, ReplaceKeeps
    <3>5. QED
      BY <3>2, <3>3, <3>4
  <2>5. QED
    <3>1. CASE other = [trace EXCEPT !.edges = Append(@, added)]
      BY <1>1, <1>2, <2>3, <3>1
    <3>2. ASSUME NEW i \in DOMAIN trace.edges,
                 \/ other = [trace EXCEPT !.edges = RemoveAt(@, i)]
                 \/ other = [trace EXCEPT !.edges = [trace.edges EXCEPT ![i] =
                                                      turned(trace.edges[i])]]
                 \/ other = [trace EXCEPT !.edges = [trace.edges EXCEPT ![i] =
                                                      renamed(trace.edges[i])]]
          PROVE  other.events \in Seq(Exported) /\ other.edges \in Seq(Link)
      <4>1. other.events = trace.events
        BY <1>2, <3>2
      <4>2. \/ other.edges = RemoveAt(trace.edges, i)
            \/ other.edges = [trace.edges EXCEPT ![i] = turned(trace.edges[i])]
            \/ other.edges = [trace.edges EXCEPT ![i] = renamed(trace.edges[i])]
        BY <1>2, <3>2
      <4>3. QED
        BY <1>1, <2>4, <4>1, <4>2
    <3>3. QED
      BY <2>1, <3>1, <3>2
<1>6. QED
  BY <1>3, <1>4, <1>5

LEMMA EditsAreEnvelopes ==
  ASSUME NEW a, IsEnvelope(a), NEW trace, NEW envelope \in {a} \cup DocumentEdits(a, trace)
  PROVE  IsEnvelope(envelope)
<1>1. ASSUME NEW b, IsEnvelope(b), NEW x
      PROVE  /\ IsEnvelope([b EXCEPT !.version = x]) /\ IsEnvelope([b EXCEPT !.run = x])
             /\ IsEnvelope([b EXCEPT !.context = x]) /\ IsEnvelope([b EXCEPT !.events = x])
             /\ IsEnvelope([b EXCEPT !.edges = x]) /\ IsEnvelope([b EXCEPT !.digest = x])
             /\ IsEnvelope([b EXCEPT !.issued = x]) /\ IsEnvelope([b EXCEPT !.keyId = x])
             /\ IsEnvelope([b EXCEPT !.public = x])
  <2>1. PICK v, n, c, m, k, d, i, key, p, s :
          b = [version |-> v, run |-> n, context |-> c, events |-> m, edges |-> k,
               digest |-> d, issued |-> i, keyId |-> key, public |-> p, signature |-> s]
    BY <1>1 DEF IsEnvelope
  <2>2. IsEnvelope([b EXCEPT !.version = x])
    BY <2>1 DEF IsEnvelope
  <2>3. IsEnvelope([b EXCEPT !.run = x])
    BY <2>1 DEF IsEnvelope
  <2>4. IsEnvelope([b EXCEPT !.context = x])
    BY <2>1 DEF IsEnvelope
  <2>5. IsEnvelope([b EXCEPT !.events = x])
    BY <2>1 DEF IsEnvelope
  <2>6. IsEnvelope([b EXCEPT !.edges = x])
    BY <2>1 DEF IsEnvelope
  <2>7. IsEnvelope([b EXCEPT !.digest = x])
    BY <2>1 DEF IsEnvelope
  <2>8. IsEnvelope([b EXCEPT !.issued = x])
    BY <2>1 DEF IsEnvelope
  <2>9. IsEnvelope([b EXCEPT !.keyId = x])
    BY <2>1 DEF IsEnvelope
  <2>10. IsEnvelope([b EXCEPT !.public = x])
    BY <2>1 DEF IsEnvelope
  <2>11. QED
    BY <2>2, <2>3, <2>4, <2>5, <2>6, <2>7, <2>8, <2>9, <2>10
<1>2. ASSUME NEW x, NEW y PROVE IsEnvelope([a EXCEPT !.keyId = x, !.public = y])
  <2>1. [a EXCEPT !.keyId = x, !.public = y] = [[a EXCEPT !.keyId = x] EXCEPT !.public = y]
    OBVIOUS
  <2>2. IsEnvelope([a EXCEPT !.keyId = x])
    BY <1>1
  <2> DEFINE b == [a EXCEPT !.keyId = x]
  <2>3. IsEnvelope(b)
    BY <2>2
  <2> HIDE DEF b
  <2>4. IsEnvelope([b EXCEPT !.public = y])
    BY <1>1, <2>3
  <2>5. QED
    BY <2>1, <2>4 DEF b
<1>3. CASE envelope = a
  BY <1>3
<1>4. CASE envelope \in DocumentEdits(a, trace)
  <2>1. PICK x, y :
          \/ envelope = [a EXCEPT !.version = x] \/ envelope = [a EXCEPT !.run = x]
          \/ envelope = [a EXCEPT !.context = x] \/ envelope = [a EXCEPT !.events = x]
          \/ envelope = [a EXCEPT !.edges = x] \/ envelope = [a EXCEPT !.digest = x]
          \/ envelope = [a EXCEPT !.issued = x] \/ envelope = [a EXCEPT !.keyId = x]
          \/ envelope = [a EXCEPT !.keyId = x, !.public = y]
    BY <1>4 DEF DocumentEdits
  <2> DEFINE Two == [a EXCEPT !.keyId = x, !.public = y]
  <2>2. IsEnvelope(Two)
    BY <1>2
  <2> HIDE DEF Two
  <2>3. envelope = Two \/ envelope # [a EXCEPT !.keyId = x, !.public = y]
    BY DEF Two
  <2>4. /\ IsEnvelope([a EXCEPT !.version = x]) /\ IsEnvelope([a EXCEPT !.run = x])
        /\ IsEnvelope([a EXCEPT !.context = x]) /\ IsEnvelope([a EXCEPT !.events = x])
        /\ IsEnvelope([a EXCEPT !.edges = x]) /\ IsEnvelope([a EXCEPT !.digest = x])
        /\ IsEnvelope([a EXCEPT !.issued = x]) /\ IsEnvelope([a EXCEPT !.keyId = x])
    BY <1>1
  <2>5. QED
    BY <2>1, <2>2, <2>3, <2>4, Zenon
<1>5. QED
  BY <1>3, <1>4

(* However a run is recorded: it is signed exactly when it is well formed, *)
(* the document verifies that run and no edit of it, and no edit of the    *)
(* document verifies.                                                      *)
THEOREM AttestationBinds ==
  ASSUME SigningSorts
  PROVE  SigningInit /\ [][SigningNext]_subject => []AttestedUnchanged
<1> DEFINE Stored == subject = <<>> \/ \E trace \in TraceOver(Event) : subject = <<trace>>
<1>1. SigningInit => Stored
  BY DEF SigningInit
<1>2. Stored /\ [SigningNext]_subject => Stored'
  <2> SUFFICES ASSUME Stored, [SigningNext]_subject PROVE Stored'
    OBVIOUS
  <2>1. CASE BeginRun
    <3>1. [run |-> RunId, context |-> ContextId, events |-> <<>>, edges |-> <<>>]
            \in TraceOver(Event)
      BY DEF TraceOver
    <3>2. QED
      BY <2>1, <3>1 DEF BeginRun
  <2>2. CASE StoreEvent
    <3>1. PICK e \in Event, trace \in TraceOver(Event) :
            /\ subject = <<trace>>
            /\ subject' = <<[subject[1] EXCEPT !.events = Append(@, e)]>>
      BY <2>2 DEF StoreEvent
    <3>2. subject' = <<[trace EXCEPT !.events = Append(trace.events, e)]>>
      BY <3>1 DEF TraceOver
    <3>3. Append(trace.events, e) \in Seq(Event)
      BY AppendProperties DEF TraceOver
    <3>4. [trace EXCEPT !.events = Append(trace.events, e)] \in TraceOver(Event)
      BY <3>3 DEF TraceOver
    <3>5. QED
      BY <3>2, <3>4
  <2>3. CASE StoreEdge
    <3>1. PICK e \in Edge, trace \in TraceOver(Event) :
            /\ subject = <<trace>>
            /\ subject' = <<[subject[1] EXCEPT !.edges = Append(@, e)]>>
      BY <2>3 DEF StoreEdge
    <3>2. subject' = <<[trace EXCEPT !.edges = Append(trace.edges, e)]>>
      BY <3>1
    <3>3. Append(trace.edges, e) \in Seq(Link)
      BY AppendProperties DEF TraceOver, SigningSorts
    <3>4. [trace EXCEPT !.edges = Append(trace.edges, e)] \in TraceOver(Event)
      BY <3>3 DEF TraceOver
    <3>5. QED
      BY <3>2, <3>4
  <2>4. CASE UNCHANGED subject
    BY <2>4
  <2>5. QED
    BY <2>1, <2>2, <2>3, <2>4 DEF SigningNext
<1>3. ASSUME Stored PROVE AttestedUnchanged
  <2> SUFFICES ASSUME NEW trace \in ToSet(subject) PROVE
        LET a == Attest(trace, "key", 1)
            listed == [trace EXCEPT !.edges = Reverse(@)]
            pairs == ({trace, listed} \cup EventEdits(trace) \cup EdgeEdits(trace)) \X {a}
                       \cup {trace} \X DocumentEdits(a, trace)
        IN  \A x \in pairs, trusted \in {<<>>, <<{}>>, <<{KeyId("key")}>>} :
              Binds(trace, x[1], x[2], "key", 1, trusted)
    BY DEF AttestedUnchanged
  <2> DEFINE a == Attest(trace, "key", 1)
             listed == [trace EXCEPT !.edges = Reverse(@)]
             Others == {trace, listed} \cup EventEdits(trace) \cup EdgeEdits(trace)
             Documents == {a} \cup DocumentEdits(a, trace)
  <2>1. trace \in TraceOver(Event)
    BY <1>3 DEF ToSet
  <2>2. \A other \in Others : other.events \in Seq(Exported) /\ other.edges \in Seq(Link)
    BY <2>1, EditsAreTraces
  <2>3. IsEnvelope(a)
    BY AttestIs
  <2>4. \A d \in Documents : IsEnvelope(d)
    BY <2>3, EditsAreEnvelopes
  <2>5. trace \in Others /\ a \in Documents
    OBVIOUS
  <2> HIDE DEF a, listed, Others, Documents
  <2>6. \A e \in Exported : e.id \in Int /\ e.seq \in Int
    BY ExportedTyped
  <2>7. \A other \in Others, d \in Documents :
          \A trusted : Binds(trace, other, d, "key", 1, trusted)
    BY <2>2, <2>4, <2>5, <2>6, DocumentBinds
  <2>8. \A x \in (Others \X {a}) \cup ({trace} \X DocumentEdits(a, trace)) :
          x[1] \in Others /\ x[2] \in Documents
    BY <2>5 DEF Documents
  <2>9. QED
    BY <2>7, <2>8 DEF Others, listed, a
<1> HIDE DEF Stored
<1>4. QED
  BY <1>1, <1>2, <1>3, PTL
=============================================================================
