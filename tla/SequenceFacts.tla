----------------------------- MODULE SequenceFacts -----------------------------
(***************************************************************************)
(* Facts about sequences that the proofs about the queues of the write     *)
(* buffer and of the store keep needing: cutting a queue in two, removing  *)
(* a row of it, and joining queues, seen from the rows a queue holds       *)
(* (Range) and from a relation R that they obey from front to back;        *)
(* induction over the natural numbers, for facts that are sets of them;    *)
(* and what OfRun keeps of a queue.                                        *)
(***************************************************************************)
EXTENDS RunRows, SequencesExt, SequenceTheorems, WellFoundedInduction, TLAPS

(* Every row of s is related by R to every row behind it.                  *)
Increasing(s, R) ==
  \A i, j \in 1 .. Len(s) : i < j => <<s[i], s[j]>> \in R

Taken(s, k) == SubSeq(s, 1, k)
Left(s, k)   == SubSeq(s, k + 1, Len(s))

(* Cutting a queue in two: what is taken and what is left are queues of    *)
(* the same rows, and together they are the queue.                         *)
LEMMA Split ==
  ASSUME NEW S, NEW s \in Seq(S), NEW k \in 0 .. Len(s)
  PROVE  /\ Taken(s, k) \in Seq(S) /\ Left(s, k) \in Seq(S)
         /\ Len(Taken(s, k)) = k /\ Len(Left(s, k)) = Len(s) - k
         /\ \A i \in 1 .. k : Taken(s, k)[i] = s[i]
         /\ \A i \in 1 .. Len(s) - k : Left(s, k)[i] = s[k + i]
<1>1. Len(s) \in Nat /\ \A i \in 1 .. Len(s) : s[i] \in S
  BY ElementOfSeq, LenProperties
<1>2. /\ Taken(s, k) \in Seq(S) /\ Len(Taken(s, k)) = k
      /\ \A i \in 1 .. k : Taken(s, k)[i] = s[i]
  <2>1. \A i \in 1 .. k : s[i] \in S
    BY <1>1
  <2>2. 1 \in Int /\ k \in Int
    BY <1>1
  <2>3. /\ SubSeq(s, 1, k) \in Seq(S)
        /\ Len(SubSeq(s, 1, k)) = IF 1 <= k THEN k - 1 + 1 ELSE 0
        /\ \A i \in 1 .. k - 1 + 1 : SubSeq(s, 1, k)[i] = s[1 + i - 1]
    BY <2>1, <2>2, SubSeqProperties
  <2>4. QED
    BY <1>1, <2>3 DEF Taken
<1>3. /\ Left(s, k) \in Seq(S) /\ Len(Left(s, k)) = Len(s) - k
      /\ \A i \in 1 .. Len(s) - k : Left(s, k)[i] = s[k + i]
  <2>1. \A i \in k + 1 .. Len(s) : s[i] \in S
    BY <1>1
  <2>2. k + 1 \in Int /\ Len(s) \in Int
    BY <1>1
  <2>3. /\ SubSeq(s, k + 1, Len(s)) \in Seq(S)
        /\ Len(SubSeq(s, k + 1, Len(s))) =
             IF k + 1 <= Len(s) THEN Len(s) - (k + 1) + 1 ELSE 0
        /\ \A i \in 1 .. Len(s) - (k + 1) + 1 :
             SubSeq(s, k + 1, Len(s))[i] = s[k + 1 + i - 1]
    BY <2>1, <2>2, SubSeqProperties
  <2>4. QED
    BY <1>1, <2>3 DEF Left
<1>4. QED
  BY <1>2, <1>3

LEMMA SplitConcat ==
  ASSUME NEW S, NEW s \in Seq(S), NEW k \in 0 .. Len(s)
  PROVE  Taken(s, k) \o Left(s, k) = s
<1> DEFINE t == Taken(s, k)
           u == Left(s, k)
           both == t \o u
<1>1. /\ t \in Seq(S) /\ u \in Seq(S)
      /\ Len(t) = k /\ Len(u) = Len(s) - k
      /\ \A i \in 1 .. k : t[i] = s[i]
      /\ \A i \in 1 .. Len(s) - k : u[i] = s[k + i]
  BY Split
<1>2. Len(s) \in Nat /\ k \in Nat /\ k <= Len(s)
  BY LenProperties
<1> HIDE DEF t, u
<1>3. /\ both \in Seq(S) /\ Len(both) = Len(t) + Len(u)
      /\ \A i \in 1 .. Len(t) + Len(u) :
           both[i] = IF i <= Len(t) THEN t[i] ELSE u[i - Len(t)]
  BY <1>1, ConcatProperties
<1> HIDE DEF both
<1>4. Len(both) = Len(s)
  BY <1>1, <1>2, <1>3
<1>5. ASSUME NEW i \in 1 .. Len(both) PROVE both[i] = s[i]
  <2>1. CASE i <= k
    BY <1>1, <1>2, <1>3, <1>4, <2>1
  <2>2. CASE ~ (i <= k)
    <3>1. i - k \in 1 .. Len(s) - k /\ k + (i - k) = i
      BY <1>2, <1>4, <2>2
    <3>2. u[i - k] = s[i]
      BY <1>1, <3>1
    <3>3. QED
      BY <1>1, <1>2, <1>3, <1>4, <2>2, <3>2
  <2>3. QED
    BY <2>1, <2>2
<1>6. both = s
  BY <1>3, <1>4, <1>5, SeqEqual
<1>7. QED
  BY <1>6 DEF both, t, u

LEMMA SplitRange ==
  ASSUME NEW S, NEW s \in Seq(S), NEW k \in 0 .. Len(s)
  PROVE  Range(s) = Range(Taken(s, k)) \cup Range(Left(s, k))
<1>1. /\ Range(s) = {s[i] : i \in 1 .. Len(s)}
      /\ Range(Taken(s, k)) = {Taken(s, k)[i] : i \in 1 .. Len(Taken(s, k))}
      /\ Range(Left(s, k)) = {Left(s, k)[i] : i \in 1 .. Len(Left(s, k))}
  <2>1. Taken(s, k) \in Seq(S) /\ Left(s, k) \in Seq(S)
    BY Split
  <2>2. \A t \in Seq(S) : Range(t) = {t[i] : i \in 1 .. Len(t)}
    BY RangeEquality
  <2>3. QED
    BY <2>1, <2>2
<1>2. ASSUME NEW i \in 1 .. Len(s)
      PROVE  s[i] \in Range(Taken(s, k)) \cup Range(Left(s, k))
  <2>1. CASE i <= k
    <3>1. i \in 1 .. k
      BY <2>1, LenProperties
    <3>2. QED
      BY <1>1, <3>1, Split, ZenonT(60)
  <2>2. CASE i > k
    <3>1. i - k \in 1 .. Len(s) - k /\ k + (i - k) = i
      BY <2>2, LenProperties
    <3>2. Left(s, k)[i - k] = s[i]
      BY <3>1, Split
    <3>3. QED
      BY <1>1, <3>1, <3>2, Split, ZenonT(60)
  <2>3. QED
    BY <2>1, <2>2, LenProperties
<1>3. ASSUME NEW i \in 1 .. k PROVE Taken(s, k)[i] \in Range(s)
  <2>1. i \in 1 .. Len(s)
    BY LenProperties
  <2>2. Taken(s, k)[i] = s[i]
    BY Split
  <2>3. QED
    BY <1>1, <2>1, <2>2
<1>4. ASSUME NEW i \in 1 .. Len(s) - k PROVE Left(s, k)[i] \in Range(s)
  <2>1. k + i \in 1 .. Len(s) /\ Left(s, k)[i] = s[k + i]
    BY Split, LenProperties
  <2>2. QED
    BY <1>1, <2>1
<1>5. Len(Taken(s, k)) = k /\ Len(Left(s, k)) = Len(s) - k
  BY Split
<1>6. QED
  BY <1>1, <1>2, <1>3, <1>4, <1>5
LEMMA IncreasingSplit ==
  ASSUME NEW S, NEW R, NEW s \in Seq(S), NEW k \in 0 .. Len(s), Increasing(s, R)
  PROVE  /\ Increasing(Taken(s, k), R) /\ Increasing(Left(s, k), R)
         /\ Range(Taken(s, k)) \X Range(Left(s, k)) \subseteq R
<1> DEFINE t == Taken(s, k)
           u == Left(s, k)
<1>1. /\ Len(s) \in Nat /\ Len(t) = k /\ Len(u) = Len(s) - k
      /\ \A i \in 1 .. k : t[i] = s[i]
      /\ \A i \in 1 .. Len(s) - k : u[i] = s[k + i]
  BY Split, LenProperties
<1>2. \A i, j \in 1 .. Len(s) : i < j => <<s[i], s[j]>> \in R
  BY DEF Increasing
<1>3. /\ Range(t) = {t[i] : i \in 1 .. Len(t)}
      /\ Range(u) = {u[i] : i \in 1 .. Len(u)}
  BY Split, RangeEquality
<1> HIDE DEF t, u
<1>4. Increasing(t, R)
  <2> SUFFICES ASSUME NEW i \in 1 .. Len(t), NEW j \in 1 .. Len(t), i < j
               PROVE  <<t[i], t[j]>> \in R
    BY DEF Increasing
  <2>1. i \in 1 .. Len(s) /\ j \in 1 .. Len(s)
    BY <1>1
  <2>2. QED
    BY <1>1, <1>2, <2>1
<1>5. Increasing(u, R)
  <2> SUFFICES ASSUME NEW i \in 1 .. Len(u), NEW j \in 1 .. Len(u), i < j
               PROVE  <<u[i], u[j]>> \in R
    BY DEF Increasing
  <2>1. k + i \in 1 .. Len(s) /\ k + j \in 1 .. Len(s) /\ k + i < k + j
    BY <1>1
  <2>2. QED
    BY <1>1, <1>2, <2>1
<1>6. ASSUME NEW i \in 1 .. Len(t), NEW j \in 1 .. Len(u)
      PROVE  <<t[i], u[j]>> \in R
  <2>1. i \in 1 .. Len(s) /\ k + j \in 1 .. Len(s) /\ i < k + j
    BY <1>1
  <2>2. t[i] = s[i] /\ u[j] = s[k + j]
    BY <1>1
  <2>3. QED
    BY <1>2, <2>1, <2>2
<1>7. Range(t) \X Range(u) \subseteq R
  BY <1>3, <1>6
<1>8. QED
  BY <1>4, <1>5, <1>7 DEF t, u

(* Joining two queues: the order of the whole is the order of the parts    *)
(* and that of every row of the first before every row of the second.      *)
LEMMA IncreasingConcat ==
  ASSUME NEW S, NEW R, NEW s \in Seq(S), NEW t \in Seq(S),
         Increasing(s, R), Increasing(t, R), Range(s) \X Range(t) \subseteq R
  PROVE  Increasing(s \o t, R)
<1>1. /\ Len(s) \in Nat /\ Len(t) \in Nat /\ Len(s \o t) = Len(s) + Len(t)
      /\ \A i \in 1 .. Len(s) + Len(t) :
           (s \o t)[i] = IF i <= Len(s) THEN s[i] ELSE t[i - Len(s)]
  BY ConcatProperties, LenProperties
<1>2. /\ Range(s) = {s[i] : i \in 1 .. Len(s)}
      /\ Range(t) = {t[i] : i \in 1 .. Len(t)}
  BY RangeEquality
<1> SUFFICES ASSUME NEW i \in 1 .. Len(s) + Len(t), NEW j \in 1 .. Len(s) + Len(t),
                    i < j
             PROVE  <<(s \o t)[i], (s \o t)[j]>> \in R
  BY <1>1 DEF Increasing
<1>3. CASE j <= Len(s)
  <2>1. i \in 1 .. Len(s) /\ j \in 1 .. Len(s)
    BY <1>1, <1>3
  <2>2. (s \o t)[i] = s[i] /\ (s \o t)[j] = s[j]
    BY <1>1, <2>1
  <2>3. QED
    BY <2>1, <2>2 DEF Increasing
<1>4. CASE i > Len(s)
  <2>1. /\ i - Len(s) \in 1 .. Len(t) /\ j - Len(s) \in 1 .. Len(t)
        /\ i - Len(s) < j - Len(s)
    BY <1>1, <1>4
  <2>2. (s \o t)[i] = t[i - Len(s)] /\ (s \o t)[j] = t[j - Len(s)]
    BY <1>1, <1>4
  <2>3. QED
    BY <2>1, <2>2 DEF Increasing
<1>5. CASE i <= Len(s) /\ j > Len(s)
  <2>1. i \in 1 .. Len(s) /\ j - Len(s) \in 1 .. Len(t)
    BY <1>1, <1>5
  <2>2. (s \o t)[i] = s[i] /\ (s \o t)[j] = t[j - Len(s)]
    BY <1>1, <1>5
  <2>3. s[i] \in Range(s) /\ t[j - Len(s)] \in Range(t)
    BY <1>2, <2>1
  <2>4. QED
    BY <2>2, <2>3
<1>6. Len(s) \in Int /\ i \in Int /\ j \in Int
  BY <1>1
<1>7. j <= Len(s) \/ i > Len(s) \/ (i <= Len(s) /\ j > Len(s))
  BY <1>6
<1>8. QED
  BY <1>3, <1>4, <1>5, <1>7

LEMMA RangeSingle == ASSUME NEW e PROVE Range(<<e>>) = {e}
  BY DEF Range

LEMMA IncreasingSingle == ASSUME NEW R, NEW e PROVE Increasing(<<e>>, R)
  BY DEF Increasing

LEMMA IncreasingEmpty ==
  ASSUME NEW R PROVE Increasing(<<>>, R) /\ Range(<<>>) = {}
  BY DEF Increasing, Range

(* A row joins at the end.                                                 *)
LEMMA IncreasingAppend ==
  ASSUME NEW S, NEW R, NEW s \in Seq(S), NEW e \in S,
         Increasing(s, R), \A x \in Range(s) : <<x, e>> \in R
  PROVE  Increasing(Append(s, e), R)
<1>1. Append(s, e) = s \o <<e>> /\ <<e>> \in Seq(S)
  BY AppendIsConcat
<1>2. Range(s) \X Range(<<e>>) \subseteq R
  BY RangeSingle
<1>3. Increasing(<<e>>, R)
  BY IncreasingSingle
<1>4. Increasing(s \o <<e>>, R)
  BY <1>1, <1>2, <1>3, IncreasingConcat
<1>5. QED
  BY <1>1, <1>4

LEMMA RangeAppend ==
  ASSUME NEW S, NEW s \in Seq(S), NEW e \in S
  PROVE  Range(Append(s, e)) = Range(s) \cup {e}
<1>1. Append(s, e) = s \o <<e>> /\ <<e>> \in Seq(S)
  BY AppendIsConcat
<1>2. Range(s \o <<e>>) = Range(s) \cup Range(<<e>>)
  BY <1>1, RangeConcatenation, SMTT(30), ZenonT(30)
<1>3. QED
  BY <1>1, <1>2, RangeSingle

(* Removing the row at place i, wherever it is.                            *)
LEMMA Removed ==
  ASSUME NEW S, NEW R, NEW s \in Seq(S), NEW i \in 1 .. Len(s)
  PROVE  /\ RemoveAt(s, i) \in Seq(S)
         /\ Len(RemoveAt(s, i)) = Len(s) - 1
         /\ Range(s) = Range(RemoveAt(s, i)) \cup {s[i]}
         /\ Increasing(s, R) =>
              /\ Increasing(RemoveAt(s, i), R)
              /\ \A x \in Range(RemoveAt(s, i)) :
                   <<x, s[i]>> \in R \/ <<s[i], x>> \in R
<1> DEFINE front == Taken(s, i - 1)
           tail  == Left(s, i - 1)
           back  == Left(s, i)
<1>1. Len(s) \in Nat /\ i - 1 \in 0 .. Len(s) /\ i \in 0 .. Len(s)
  BY LenProperties
<1>2. RemoveAt(s, i) = front \o back
  BY DEF RemoveAt, Taken, Left
<1>3. /\ front \in Seq(S) /\ back \in Seq(S) /\ tail \in Seq(S)
      /\ Len(front) = i - 1 /\ Len(back) = Len(s) - i /\ Len(tail) = Len(s) - (i - 1)
  BY <1>1, Split, ZenonT(60)
<1>4. /\ s[i] \in S /\ <<s[i]>> \in Seq(S)
  BY ElementOfSeq
<1>5. tail = <<s[i]>> \o back
  BY <1>1, SubSeqRecursiveFirst, LenProperties DEF Left
<1>6. Range(tail) = {s[i]} \cup Range(back)
  <2>1. Range(<<s[i]>> \o back) = Range(<<s[i]>>) \cup Range(back)
    BY <1>3, <1>4, RangeConcatenation, ZenonT(60)
  <2>2. QED
    BY <1>5, <2>1, RangeSingle
<1>7. Range(s) = Range(front) \cup {s[i]} \cup Range(back)
  BY <1>1, <1>6, SplitRange
<1>8. Range(RemoveAt(s, i)) = Range(front) \cup Range(back)
  BY <1>2, <1>3, RangeConcatenation
<1>9. RemoveAt(s, i) \in Seq(S) /\ Len(RemoveAt(s, i)) = Len(s) - 1
  <2>1. front \o back \in Seq(S) /\ Len(front \o back) = Len(front) + Len(back)
    BY <1>3, ConcatProperties
  <2>2. Len(front) + Len(back) = Len(s) - 1
    BY <1>1, <1>3, SMTT(60), ZenonT(30)
  <2>3. QED
    BY <1>2, <2>1, <2>2
<1>10. ASSUME Increasing(s, R)
       PROVE  /\ Increasing(RemoveAt(s, i), R)
              /\ \A x \in Range(RemoveAt(s, i)) :
                   <<x, s[i]>> \in R \/ <<s[i], x>> \in R
  <2>1. /\ Increasing(front, R) /\ Range(front) \X Range(tail) \subseteq R
    BY <1>1, <1>10, IncreasingSplit
  <2>2. Increasing(back, R)
    BY <1>1, <1>10, IncreasingSplit
  <2>3. Increasing(RemoveAt(s, i), R)
    <3>1. Range(front) \X Range(back) \subseteq R
      BY <2>1, <1>6
    <3>2. QED
      BY <1>2, <1>3, <2>1, <2>2, <3>1, IncreasingConcat
  <2>4. ASSUME NEW x \in Range(back) PROVE <<s[i], x>> \in R
    <3>1. PICK j \in 1 .. Len(back) : x = back[j]
      BY <1>3, RangeEquality
    <3>2. x = s[i + j] /\ i + j \in 1 .. Len(s) /\ i < i + j
      BY <1>1, <1>3, <3>1, Split, SMTT(30)
    <3>3. QED
      BY <1>10, <3>2 DEF Increasing
  <2>5. QED
    BY <1>6, <1>8, <2>1, <2>3, <2>4
<1>11. QED
  BY <1>7, <1>8, <1>9, <1>10

(* Rows join a queue at its end: what was a prefix of it stays one.        *)
LEMMA PrefixGrows ==
  ASSUME NEW S, NEW s \in Seq(S), NEW t \in Seq(S), NEW u \in Seq(S),
         IsPrefix(s, t)
  PROVE  IsPrefix(s, t \o u) /\ Len(t) <= Len(t \o u)
<1>1. /\ Len(s) \in Nat /\ Len(t) \in Nat /\ Len(u) \in Nat
      /\ t \o u \in Seq(S) /\ Len(t \o u) = Len(t) + Len(u)
      /\ \A i \in 1 .. Len(t) + Len(u) :
           (t \o u)[i] = IF i <= Len(t) THEN t[i] ELSE u[i - Len(t)]
  BY LenProperties, ConcatProperties
<1>2. Len(s) <= Len(t) /\ s = Taken(t, Len(s))
  BY DEF IsPrefix, Taken
<1> DEFINE tu == t \o u
<1>3. /\ Len(s) \in 0 .. Len(t) /\ Len(s) \in 0 .. Len(tu)
      /\ t \in Seq(S) /\ tu \in Seq(S)
  BY <1>1, <1>2
<1>4. \A i \in 1 .. Len(s) : tu[i] = t[i]
  BY <1>1, <1>2
<1> HIDE DEF tu
<1>5. /\ Taken(tu, Len(s)) \in Seq(S) /\ Len(Taken(tu, Len(s))) = Len(s)
      /\ \A i \in 1 .. Len(s) : Taken(tu, Len(s))[i] = tu[i]
  BY <1>3, Split
<1>6. \A i \in 1 .. Len(s) : Taken(t, Len(s))[i] = t[i]
  BY <1>3, Split
<1>7. Taken(tu, Len(s)) = s
  <2>1. \A i \in 1 .. Len(s) : Taken(tu, Len(s))[i] = s[i]
    BY <1>2, <1>4, <1>5, <1>6
  <2>2. QED
    BY <1>5, <2>1, SeqEqual
<1>8. QED
  BY <1>1, <1>2, <1>7 DEF IsPrefix, Taken, tu

LEMMA PrefixFacts ==
  ASSUME NEW S, NEW s \in Seq(S)
  PROVE  IsPrefix(s, s) /\ IsPrefix(<<>>, s)
<1>1. Len(s) \in Nat /\ Len(<<>>) = 0 /\ SubSeq(s, 1, 0) = <<>>
  BY LenProperties, SubSeqEmpty
<1>2. SubSeq(s, 1, Len(s)) = s
  BY SubSeqFull
<1>3. QED
  BY <1>1, <1>2 DEF IsPrefix

(* Taking the first row off a queue.                                       *)
LEMMA HeadOff ==
  ASSUME NEW S, NEW R, NEW s \in Seq(S), s # <<>>
  PROVE  /\ Head(s) \in S /\ Tail(s) \in Seq(S)
         /\ Range(s) = {Head(s)} \cup Range(Tail(s))
         /\ Increasing(s, R) =>
              /\ Increasing(Tail(s), R)
              /\ \A x \in Range(Tail(s)) : <<Head(s), x>> \in R
<1> DEFINE h == Head(s)
           t == Tail(s)
<1>1. h \in S /\ t \in Seq(S) /\ Len(s) \in Nat /\ Len(s) # 0 /\ Len(t) = Len(s) - 1
  BY HeadTailProperties, LenProperties, EmptySeq
<1>2. h = s[1] /\ \A i \in 1 .. Len(t) : t[i] = s[i + 1]
  BY <1>1, HeadTailProperties
<1>3. Range(s) = {s[i] : i \in 1 .. Len(s)} /\ Range(t) = {t[i] : i \in 1 .. Len(t)}
  BY <1>1, RangeEquality
<1> HIDE DEF h, t
<1>4. Range(s) \subseteq {h} \cup Range(t)
  <2> SUFFICES ASSUME NEW i \in 1 .. Len(s) PROVE s[i] \in {h} \cup Range(t)
    BY <1>3
  <2>1. CASE i = 1
    BY <1>2, <2>1
  <2>2. CASE i # 1
    <3>1. i - 1 \in 1 .. Len(t) /\ i - 1 + 1 = i
      BY <1>1, <2>2
    <3>2. t[i - 1] = s[i]
      BY <1>2, <3>1
    <3>3. QED
      BY <1>3, <3>1, <3>2
  <2>3. QED
    BY <2>1, <2>2
<1>5. {h} \cup Range(t) \subseteq Range(s)
  <2>1. 1 \in 1 .. Len(s) /\ \A i \in 1 .. Len(t) : i + 1 \in 1 .. Len(s)
    BY <1>1
  <2>2. QED
    BY <1>2, <1>3, <2>1
<1>6. ASSUME Increasing(s, R)
      PROVE  Increasing(t, R) /\ \A x \in Range(t) : <<h, x>> \in R
  <2>1. ASSUME NEW i \in 1 .. Len(t), NEW j \in 1 .. Len(t), i < j
        PROVE  <<t[i], t[j]>> \in R
    <3>1. i + 1 \in 1 .. Len(s) /\ j + 1 \in 1 .. Len(s) /\ i + 1 < j + 1
      BY <1>1, <2>1
    <3>2. QED
      BY <1>2, <1>6, <3>1 DEF Increasing
  <2>2. ASSUME NEW i \in 1 .. Len(t) PROVE <<h, t[i]>> \in R
    <3>1. 1 \in 1 .. Len(s) /\ i + 1 \in 1 .. Len(s) /\ 1 < i + 1
      BY <1>1
    <3>2. QED
      BY <1>2, <1>6, <3>1 DEF Increasing
  <2>3. QED
    BY <1>3, <2>1, <2>2 DEF Increasing
<1>7. QED
  BY <1>1, <1>4, <1>5, <1>6 DEF h, t

(* Three queues in a row: their rows, and their order.                     *)
LEMMA ThreeInRow ==
  ASSUME NEW S, NEW R, NEW s \in Seq(S), NEW t \in Seq(S), NEW u \in Seq(S)
  PROVE  /\ s \o t \o u \in Seq(S)
         /\ Range(s \o t \o u) = Range(s) \cup Range(t) \cup Range(u)
         /\ /\ Increasing(s, R) /\ Increasing(t, R) /\ Increasing(u, R)
            /\ Range(s) \X (Range(t) \cup Range(u)) \subseteq R
            /\ Range(t) \X Range(u) \subseteq R
            => Increasing(s \o t \o u, R)
<1> DEFINE st == s \o t
<1>1. st \in Seq(S) /\ Range(st) = Range(s) \cup Range(t)
  BY ConcatProperties, RangeConcatenation
<1>2. /\ Increasing(s, R) /\ Increasing(t, R) /\ Range(s) \X Range(t) \subseteq R
      => Increasing(st, R)
  BY IncreasingConcat
<1> HIDE DEF st
<1>3. st \o u \in Seq(S) /\ Range(st \o u) = Range(st) \cup Range(u)
  BY <1>1, ConcatProperties, RangeConcatenation
<1>4. /\ Increasing(st, R) /\ Increasing(u, R) /\ Range(st) \X Range(u) \subseteq R
      => Increasing(st \o u, R)
  BY <1>1, IncreasingConcat
<1>5. /\ Range(s) \X (Range(t) \cup Range(u)) \subseteq R /\ Range(t) \X Range(u) \subseteq R
      => Range(s) \X Range(t) \subseteq R /\ Range(st) \X Range(u) \subseteq R
  BY <1>1
<1>6. QED
  BY <1>1, <1>2, <1>3, <1>4, <1>5 DEF st

(* Taking the last row off a queue.                                        *)
LEMMA LastOff ==
  ASSUME NEW S, NEW R, NEW s \in Seq(S), Len(s) > 0
  PROVE  /\ s[Len(s)] \in S /\ Taken(s, Len(s) - 1) \in Seq(S)
         /\ Range(s) = Range(Taken(s, Len(s) - 1)) \cup {s[Len(s)]}
         /\ Increasing(s, R) =>
              /\ Increasing(Taken(s, Len(s) - 1), R)
              /\ \A x \in Range(Taken(s, Len(s) - 1)) : <<x, s[Len(s)]>> \in R
<1> DEFINE k == Len(s) - 1
           last == s[Len(s)]
<1>1. Len(s) \in Nat /\ k \in 0 .. Len(s) /\ Len(s) - k = 1 /\ k + 1 = Len(s)
  BY LenProperties
<1>2. last \in S
  BY <1>1, ElementOfSeq
<1>3. /\ Taken(s, k) \in Seq(S) /\ Left(s, k) \in Seq(S)
      /\ Len(Left(s, k)) = Len(s) - k
      /\ \A i \in 1 .. Len(s) - k : Left(s, k)[i] = s[k + i]
  BY <1>1, Split, ZenonT(60)
<1>4. Range(s) = Range(Taken(s, k)) \cup Range(Left(s, k))
  BY <1>1, SplitRange
<1>5. Increasing(s, R) => /\ Increasing(Taken(s, k), R)
                          /\ Range(Taken(s, k)) \X Range(Left(s, k)) \subseteq R
  BY <1>1, IncreasingSplit
<1>6. Range(Left(s, k)) = {last}
  <2>1. Range(Left(s, k)) = {Left(s, k)[i] : i \in 1 .. Len(Left(s, k))}
    BY <1>3, RangeEquality
  <2>2. Len(Left(s, k)) = 1 /\ Left(s, k)[1] = last
    BY <1>1, <1>3
  <2>3. QED
    BY <2>1, <2>2
<1>7. QED
  BY <1>2, <1>3, <1>4, <1>5, <1>6

-----------------------------------------------------------------------------
(* Induction over the natural numbers, for the set T where a fact holds.   *)
LEMMA SetInduction ==
  ASSUME NEW T \in SUBSET Nat, 0 \in T, \A n \in T : n + 1 \in T
  PROVE  T = Nat
<1> SUFFICES ASSUME T # Nat PROVE FALSE
  OBVIOUS
<1> DEFINE U == Nat \ T
<1>1. U \subseteq Nat /\ U # {}
  OBVIOUS
<1>2. PICK x \in U : \A y \in U : ~ (<<y, x>> \in OpToRel(<, Nat))
  BY <1>1, WFMin, NatLessThanWellFounded
<1>3. x \in Nat /\ x # 0 /\ x - 1 \in Nat
  BY <1>1
<1>4. <<x - 1, x>> \in OpToRel(<, Nat)
  BY <1>3 DEF OpToRel
<1>5. x - 1 \in T
  BY <1>2, <1>3, <1>4
<1>6. x - 1 + 1 = x
  BY <1>3
<1>7. QED
  BY <1>5, <1>6, <1>2

-----------------------------------------------------------------------------
(* What OfRun keeps of a queue of rows.  It is defined by recursion on the *)
(* places of the queue, so its facts are proved by induction on a place,   *)
(* with the least counterexample of a set of places.                       *)

(* One step of the recursion: the row at place n joins what was kept.      *)
KeptStep(rows, r, kept, n) ==
  IF n = 0 THEN <<>>
  ELSE IF rows[n].run = r THEN Append(kept[n - 1], rows[n]) ELSE kept[n - 1]

KeptTraces(S, rows, r, n) ==
  {kept \in [0 .. n -> Seq(S)] : \A m \in 0 .. n : kept[m] = KeptStep(rows, r, kept, m)}

(* The recursion has a solution at every place of the queue.               *)
LEMMA KeptExists ==
  ASSUME NEW S, NEW rows \in Seq(S), NEW r
  PROVE  \A n \in 0 .. Len(rows) : KeptTraces(S, rows, r, n) # {}
<1> DEFINE T == {n \in Nat : n <= Len(rows) => KeptTraces(S, rows, r, n) # {}}
<1>1. 0 \in T
  <2>1. [m \in 0 .. 0 |-> <<>>] \in KeptTraces(S, rows, r, 0)
    BY DEF KeptTraces, KeptStep
  <2>2. QED
    BY <2>1
<1>2. ASSUME NEW n \in T PROVE n + 1 \in T
  <2> SUFFICES ASSUME n + 1 <= Len(rows) PROVE KeptTraces(S, rows, r, n + 1) # {}
    OBVIOUS
  <2>1. n \in Nat /\ Len(rows) \in Nat /\ n <= Len(rows) /\ n + 1 \in 1 .. Len(rows)
    BY LenProperties
  <2>2. PICK kept \in KeptTraces(S, rows, r, n) : TRUE
    BY <2>1
  <2>3. /\ kept \in [0 .. n -> Seq(S)]
        /\ \A m \in 0 .. n : kept[m] = KeptStep(rows, r, kept, m)
    BY <2>2 DEF KeptTraces
  <2> DEFINE new == [m \in 0 .. n + 1 |->
                       IF m <= n THEN kept[m] ELSE KeptStep(rows, r, kept, m)]
  <2>4. kept[n] \in Seq(S) /\ rows[n + 1] \in S
    BY <2>1, <2>3, ElementOfSeq
  <2>5. KeptStep(rows, r, kept, n + 1) \in Seq(S)
    <3>1. n + 1 - 1 = n /\ n + 1 # 0
      BY <2>1
    <3>2. Append(kept[n], rows[n + 1]) \in Seq(S)
      BY <2>4, AppendProperties
    <3>3. QED
      BY <2>4, <3>1, <3>2 DEF KeptStep
  <2>6. new \in [0 .. n + 1 -> Seq(S)]
    <3>1. ASSUME NEW m \in 0 .. n + 1 PROVE new[m] \in Seq(S)
      <4>1. CASE m <= n
        BY <2>1, <2>3, <4>1
      <4>2. CASE m = n + 1
        BY <2>1, <2>5, <4>2
      <4>3. QED
        BY <2>1, <4>1, <4>2
    <3>2. QED
      BY <3>1
  <2>7. ASSUME NEW m \in 0 .. n + 1 PROVE new[m] = KeptStep(rows, r, new, m)
    <3>1. m # 0 => m - 1 \in 0 .. n /\ new[m - 1] = kept[m - 1]
      BY <2>1
    <3>2. KeptStep(rows, r, new, m) = KeptStep(rows, r, kept, m)
      BY <3>1 DEF KeptStep
    <3>3. CASE m <= n
      <4>1. m \in 0 .. n /\ new[m] = kept[m]
        BY <2>1, <3>3
      <4>2. QED
        BY <2>3, <3>2, <4>1
    <3>4. CASE m > n
      BY <2>1, <3>2, <3>4
    <3>5. QED
      BY <2>1, <3>3, <3>4
  <2>8. new \in KeptTraces(S, rows, r, n + 1)
    BY <2>6, <2>7 DEF KeptTraces
  <2>9. QED
    BY <2>8
<1>3. T = Nat
  <2> HIDE DEF T
  <2>1. T \in SUBSET Nat
    BY DEF T
  <2>2. QED
    BY <1>1, <1>2, <2>1, SetInduction
<1>4. QED
  BY <1>3, LenProperties

KeptSolution(rows, r, kept, N) == \A n \in 0 .. N : kept[n] = KeptStep(rows, r, kept, n)
SameRows(s, t, N) == \A i \in 1 .. N : s[i] = t[i]

(* Solutions over queues with the same rows up to N agree up to N.         *)
LEMMA KeptAgree ==
  ASSUME NEW N \in Nat, NEW s, NEW t, NEW r, NEW f, NEW g,
         SameRows(s, t, N), KeptSolution(s, r, f, N), KeptSolution(t, r, g, N)
  PROVE  \A n \in 0 .. N : f[n] = g[n]
<1> USE DEF SameRows, KeptSolution
<1> DEFINE T == {n \in Nat : n <= N => f[n] = g[n]}
<1>1. 0 \in T
  BY DEF KeptStep
<1>2. ASSUME NEW n \in T PROVE n + 1 \in T
  <2> SUFFICES ASSUME n + 1 <= N PROVE f[n + 1] = g[n + 1]
    OBVIOUS
  <2>1. n \in Nat /\ n <= N /\ n + 1 \in 1 .. N /\ n + 1 \in 0 .. N /\ n + 1 - 1 = n
    OBVIOUS
  <2>2. f[n] = g[n] /\ s[n + 1] = t[n + 1] /\ n + 1 # 0
    BY <2>1
  <2>3. f[n + 1] = KeptStep(s, r, f, n + 1) /\ g[n + 1] = KeptStep(t, r, g, n + 1)
    BY <2>1
  <2>4. QED
    BY <2>1, <2>2, <2>3 DEF KeptStep
<1>3. T = Nat
  <2> HIDE DEF T
  <2>1. T \in SUBSET Nat
    BY DEF T
  <2>2. QED
    BY <1>1, <1>2, <2>1, SetInduction
<1>4. QED
  BY <1>3

(* OfRun is the last entry of such a solution.                             *)
LEMMA OfRunTrace ==
  ASSUME NEW S, NEW rows \in Seq(S), NEW r
  PROVE  \E kept \in KeptTraces(S, rows, r, Len(rows)) : OfRun(rows, r) = kept[Len(rows)]
<1> DEFINE Solves(k) ==
      k = [n \in 0 .. Len(rows) |->
             IF n = 0 THEN <<>>
             ELSE IF rows[n].run = r THEN Append(k[n - 1], rows[n]) ELSE k[n - 1]]
           chosen == CHOOSE k : Solves(k)
<1>1. OfRun(rows, r) = chosen[Len(rows)]
  BY DEF OfRun
<1>2. PICK kept \in KeptTraces(S, rows, r, Len(rows)) : TRUE
  BY KeptExists, LenProperties
<1>3. Solves(kept)
  BY <1>2 DEF KeptTraces, KeptStep
<1>4. Solves(chosen)
  BY <1>3
<1>5. /\ \A n \in 0 .. Len(rows) : chosen[n] = KeptStep(rows, r, chosen, n)
      /\ \A n \in 0 .. Len(rows) : kept[n] = KeptStep(rows, r, kept, n)
  BY <1>2, <1>4 DEF KeptStep, KeptTraces
<1> HIDE DEF Solves, chosen
<1>6. \A n \in 0 .. Len(rows) : chosen[n] = kept[n]
  <2>1. Len(rows) \in Nat
    BY LenProperties
  <2>2. SameRows(rows, rows, Len(rows))
    BY DEF SameRows
  <2>3. KeptSolution(rows, r, chosen, Len(rows)) /\ KeptSolution(rows, r, kept, Len(rows))
    BY <1>5 DEF KeptSolution
  <2>4. QED
    BY <2>1, <2>2, <2>3, KeptAgree
<1>7. Len(rows) \in 0 .. Len(rows)
  BY LenProperties
<1>8. QED
  BY <1>1, <1>2, <1>6, <1>7

LEMMA OfRunType ==
  ASSUME NEW S, NEW rows \in Seq(S), NEW r
  PROVE  OfRun(rows, r) \in Seq(S)
<1>1. PICK kept \in KeptTraces(S, rows, r, Len(rows)) : OfRun(rows, r) = kept[Len(rows)]
  BY OfRunTrace
<1>2. Len(rows) \in 0 .. Len(rows)
  BY LenProperties
<1>3. QED
  BY <1>1, <1>2 DEF KeptTraces

LEMMA OfRunEmpty == ASSUME NEW r PROVE OfRun(<<>>, r) = <<>>
<1>1. PICK kept \in KeptTraces({}, <<>>, r, 0) : OfRun(<<>>, r) = kept[0]
  <2>1. <<>> \in Seq({}) /\ Len(<<>>) = 0
    BY EmptySeq
  <2>2. QED
    BY <2>1, OfRunTrace
<1>2. QED
  BY <1>1 DEF KeptTraces, KeptStep

Joined(a, b) == a \o b

LEMMA AppendToJoined ==
  ASSUME NEW S, NEW a \in Seq(S), NEW b \in Seq(S), NEW e \in S
  PROVE  Append(Joined(a, b), e) = Joined(a, Append(b, e))
<1>1. <<e>> \in Seq(S) /\ a \o b \in Seq(S)
  BY ConcatProperties
<1>2. Append(a \o b, e) = (a \o b) \o <<e>>
  BY <1>1, AppendIsConcat
<1>3. Append(b, e) = b \o <<e>>
  BY AppendIsConcat
<1> DEFINE last == <<e>>
<1> HIDE DEF last
<1>4. (a \o b) \o last = a \o (b \o last)
  BY <1>1, ConcatAssociative DEF last
<1>5. QED
  BY <1>2, <1>3, <1>4 DEF last, Joined

(* The rows of a run in two queues put one behind the other are its rows   *)
(* in the first, then its rows in the second.                              *)
LEMMA OfRunConcat ==
  ASSUME NEW S, NEW s \in Seq(S), NEW t \in Seq(S), NEW r
  PROVE  OfRun(s \o t, r) = OfRun(s, r) \o OfRun(t, r)
<1>1. /\ s \o t \in Seq(S) /\ Len(s) \in Nat /\ Len(t) \in Nat
      /\ Len(s \o t) = Len(s) + Len(t)
      /\ \A i \in 1 .. Len(s) + Len(t) :
           (s \o t)[i] = IF i <= Len(s) THEN s[i] ELSE t[i - Len(s)]
  BY ConcatProperties, LenProperties
<1> DEFINE st == s \o t
<1> HIDE DEF st
<1>2. PICK f \in KeptTraces(S, s, r, Len(s)) : OfRun(s, r) = f[Len(s)]
  BY OfRunTrace
<1>3. PICK g \in KeptTraces(S, t, r, Len(t)) : OfRun(t, r) = g[Len(t)]
  BY OfRunTrace
<1>4. PICK h \in KeptTraces(S, st, r, Len(s) + Len(t)) :
        OfRun(st, r) = h[Len(s) + Len(t)]
  BY <1>1, OfRunTrace DEF st
<1>5. /\ \A n \in 0 .. Len(s) : f[n] \in Seq(S) /\ f[n] = KeptStep(s, r, f, n)
      /\ \A n \in 0 .. Len(t) : g[n] \in Seq(S) /\ g[n] = KeptStep(t, r, g, n)
      /\ \A n \in 0 .. Len(s) + Len(t) : h[n] = KeptStep(st, r, h, n)
  BY <1>2, <1>3, <1>4 DEF KeptTraces
<1>6. h[Len(s)] = f[Len(s)]
  <2>1. Len(s) \in Nat
    BY <1>1
  <2>2. SameRows(st, s, Len(s))
    BY <1>1 DEF st, SameRows
  <2>3. KeptSolution(st, r, h, Len(s))
    BY <1>1, <1>5 DEF KeptSolution
  <2>4. KeptSolution(s, r, f, Len(s))
    BY <1>5 DEF KeptSolution
  <2>5. \A n \in 0 .. Len(s) : h[n] = f[n]
    BY <2>1, <2>2, <2>3, <2>4, KeptAgree
  <2>6. QED
    BY <2>1, <2>5
<1>7. \A m \in 0 .. Len(t) : h[Len(s) + m] = Joined(f[Len(s)], g[m])
  <2> DEFINE Behind(m) == h[Len(s) + m] = Joined(f[Len(s)], g[m])
             T == {m \in Nat : m <= Len(t) => Behind(m)}
  <2>1. Behind(0)
    <3>1. g[0] = <<>> /\ f[Len(s)] \in Seq(S)
      BY <1>1, <1>5 DEF KeptStep
    <3>2. f[Len(s)] \o <<>> = f[Len(s)]
      BY <3>1, ConcatEmptySeq
    <3>3. Len(s) + 0 = Len(s)
      BY <1>1
    <3>4. QED
      BY <1>6, <3>1, <3>2, <3>3 DEF Joined
  <2>2. ASSUME NEW m \in Nat, m + 1 <= Len(t), Behind(m)
        PROVE  Behind(m + 1)
    <3> DEFINE k == Len(s) + (m + 1)
    <3>1. /\ m \in 0 .. Len(t) /\ m + 1 \in 1 .. Len(t) /\ m + 1 - 1 = m
          /\ m + 1 \in 0 .. Len(t) /\ m + 1 # 0
          /\ k \in 1 .. Len(s) + Len(t) /\ k \in 0 .. Len(s) + Len(t)
          /\ k # 0 /\ k - 1 = Len(s) + m /\ ~ (k <= Len(s)) /\ k - Len(s) = m + 1
      BY <1>1, <2>2
    <3>2. h[k - 1] = Joined(f[Len(s)], g[m])
      <4>1. k - 1 = Len(s) + m
        BY <3>1
      <4> HIDE DEF k
      <4>2. QED
        BY <2>2, <4>1
    <3>3. st[k] = t[m + 1]
      BY <1>1, <3>1 DEF st
    <3> HIDE DEF k
    <3>4. h[k] = IF t[m + 1].run = r THEN Append(h[k - 1], t[m + 1]) ELSE h[k - 1]
      BY <1>5, <3>1, <3>3 DEF KeptStep
    <3>5. g[m + 1] = IF t[m + 1].run = r THEN Append(g[m], t[m + 1]) ELSE g[m]
      BY <1>5, <3>1 DEF KeptStep
    <3>6. f[Len(s)] \in Seq(S) /\ g[m] \in Seq(S) /\ t[m + 1] \in S
      BY <1>1, <1>5, <3>1, ElementOfSeq
    <3>7. Append(Joined(f[Len(s)], g[m]), t[m + 1])
            = Joined(f[Len(s)], Append(g[m], t[m + 1]))
      <4> DEFINE a == f[Len(s)]
                 b == g[m]
                 e == t[m + 1]
      <4>1. a \in Seq(S) /\ b \in Seq(S) /\ e \in S
        BY <3>6
      <4> HIDE DEF a, b, e
      <4>2. Append(Joined(a, b), e) = Joined(a, Append(b, e))
        BY ONLY <4>1, AppendToJoined
      <4>3. QED
        BY <4>2 DEF a, b, e
    <3>8. h[k] = Joined(f[Len(s)], g[m + 1])
      BY <3>2, <3>4, <3>5, <3>7
    <3>9. QED
      BY <3>8 DEF k
  <2> HIDE DEF Behind
  <2>3. 0 \in T /\ \A m \in T : m + 1 \in T
    BY <1>1, <2>1, <2>2
  <2>4. T = Nat
    <3> HIDE DEF T
    <3>1. T \in SUBSET Nat
      BY DEF T
    <3>2. QED
      BY <2>3, <3>1, SetInduction
  <2>5. \A m \in 0 .. Len(t) : Behind(m)
    BY <1>1, <2>4
  <2>6. QED
    BY <2>5 DEF Behind
<1>8. Len(t) \in 0 .. Len(t)
  BY <1>1
<1>9. OfRun(st, r) = Joined(f[Len(s)], g[Len(t)])
  BY <1>4, <1>7, <1>8
<1>10. QED
  BY <1>2, <1>3, <1>9 DEF st, Joined

(* A run has rows in a queue exactly when some row of the queue is its.    *)
LEMMA OfRunSome ==
  ASSUME NEW S, NEW s \in Seq(S), NEW r, NEW i \in 1 .. Len(s)
  PROVE  s[i].run = r => OfRun(s, r) # <<>>
<1> SUFFICES ASSUME s[i].run = r PROVE OfRun(s, r) # <<>>
  OBVIOUS
<1>1. PICK f \in KeptTraces(S, s, r, Len(s)) : OfRun(s, r) = f[Len(s)]
  BY OfRunTrace
<1>2. \A n \in 0 .. Len(s) : f[n] \in Seq(S) /\ f[n] = KeptStep(s, r, f, n)
  BY <1>1 DEF KeptTraces
<1>3. Len(s) \in Nat /\ i \in Nat /\ i # 0 /\ i <= Len(s)
  BY LenProperties
<1> DEFINE T == {m \in Nat : i + m <= Len(s) => f[i + m] # <<>>}
<1>4. 0 \in T
  <2>1. i - 1 \in 0 .. Len(s) /\ i \in 0 .. Len(s) /\ i # 0
    BY <1>3
  <2>4. f[i] = KeptStep(s, r, f, i) /\ f[i - 1] \in Seq(S) /\ s[i] \in S
    BY <1>2, <2>1, ElementOfSeq
  <2>5. f[i] = Append(f[i - 1], s[i])
    BY <2>1, <2>4 DEF KeptStep
  <2>2. f[i] # <<>>
    BY <2>4, <2>5, AppendProperties
  <2>3. i + 0 = i
    BY <1>3
  <2>6. QED
    BY <2>2, <2>3
<1>5. ASSUME NEW m \in T PROVE m + 1 \in T
  <2> SUFFICES ASSUME i + (m + 1) <= Len(s) PROVE f[i + (m + 1)] # <<>>
    OBVIOUS
  <2> DEFINE k == i + (m + 1)
  <2>1. /\ m \in Nat /\ i + m <= Len(s) /\ k - 1 = i + m /\ k # 0
        /\ k \in 0 .. Len(s) /\ k \in 1 .. Len(s) /\ k - 1 \in 0 .. Len(s)
    BY <1>3
  <2>2. f[k - 1] # <<>>
    BY <2>1
  <2> HIDE DEF k
  <2>3. f[k - 1] \in Seq(S) /\ s[k] \in S
    BY <1>2, <2>1, ElementOfSeq
  <2>4. Append(f[k - 1], s[k]) # <<>>
    BY <2>3, AppendProperties
  <2>5. f[k] = IF s[k].run = r THEN Append(f[k - 1], s[k]) ELSE f[k - 1]
    BY <1>2, <2>1 DEF KeptStep
  <2>6. QED
    BY <2>2, <2>4, <2>5 DEF k
<1>6. T = Nat
  <2> HIDE DEF T
  <2>1. T \in SUBSET Nat
    BY DEF T
  <2>2. QED
    BY <1>4, <1>5, <2>1, SetInduction
<1>7. Len(s) - i \in Nat /\ i + (Len(s) - i) = Len(s)
  BY <1>3
<1>8. Len(s) - i \in T
  BY <1>6, <1>7
<1>9. QED
  BY <1>1, <1>3, <1>7, <1>8

LEMMA OfRunNone ==
  ASSUME NEW S, NEW s \in Seq(S), NEW r, \A i \in 1 .. Len(s) : s[i].run # r
  PROVE  OfRun(s, r) = <<>>
<1>1. PICK f \in KeptTraces(S, s, r, Len(s)) : OfRun(s, r) = f[Len(s)]
  BY OfRunTrace
<1>2. \A n \in 0 .. Len(s) : f[n] = KeptStep(s, r, f, n)
  BY <1>1 DEF KeptTraces
<1> DEFINE T == {m \in Nat : m <= Len(s) => f[m] = <<>>}
<1>3. 0 \in T
  BY <1>2, LenProperties DEF KeptStep
<1>4. ASSUME NEW m \in T PROVE m + 1 \in T
  <2> SUFFICES ASSUME m + 1 <= Len(s) PROVE f[m + 1] = <<>>
    OBVIOUS
  <2>1. /\ m <= Len(s) /\ m + 1 - 1 = m /\ m + 1 # 0
        /\ m + 1 \in 0 .. Len(s) /\ m + 1 \in 1 .. Len(s)
    BY LenProperties
  <2>2. f[m] = <<>>
    BY <2>1
  <2>3. QED
    BY <1>2, <2>1, <2>2 DEF KeptStep
<1>5. T = Nat
  <2> HIDE DEF T
  <2>1. T \in SUBSET Nat
    BY DEF T
  <2>2. QED
    BY <1>3, <1>4, <2>1, SetInduction
<1>6. QED
  BY <1>1, <1>5, LenProperties

(* A queue that holds rows of one run alone is what it holds of that run.  *)
LEMMA OfRunAll ==
  ASSUME NEW S, NEW s \in Seq(S), NEW r, \A i \in 1 .. Len(s) : s[i].run = r
  PROVE  OfRun(s, r) = s
<1>1. PICK f \in KeptTraces(S, s, r, Len(s)) : OfRun(s, r) = f[Len(s)]
  BY OfRunTrace
<1>2. \A n \in 0 .. Len(s) : f[n] \in Seq(S) /\ f[n] = KeptStep(s, r, f, n)
  BY <1>1 DEF KeptTraces
<1> DEFINE Copied(m) == Len(f[m]) = m /\ \A i \in 1 .. m : f[m][i] = s[i]
           T == {m \in Nat : m <= Len(s) => Copied(m)}
<1>3. 0 \in T
  <2>1. f[0] = <<>>
    BY <1>2, LenProperties DEF KeptStep
  <2>2. QED
    BY <2>1, EmptySeq
<1>4. ASSUME NEW m \in T PROVE m + 1 \in T
  <2> SUFFICES ASSUME m + 1 <= Len(s) PROVE Copied(m + 1)
    OBVIOUS
  <2>1. /\ m \in Nat /\ m <= Len(s) /\ m + 1 - 1 = m /\ m + 1 # 0 /\ m \in 0 .. Len(s)
        /\ m + 1 \in 0 .. Len(s) /\ m + 1 \in 1 .. Len(s)
    BY LenProperties
  <2>2. Copied(m)
    BY <2>1
  <2>3. f[m] \in Seq(S) /\ s[m + 1] \in S
    BY <1>2, <2>1, ElementOfSeq
  <2>4. f[m + 1] = Append(f[m], s[m + 1])
    <3>1. s[m + 1].run = r /\ f[m + 1] = KeptStep(s, r, f, m + 1)
      BY <1>2, <2>1
    <3>2. QED
      BY <2>1, <3>1 DEF KeptStep
  <2>5. /\ Len(f[m + 1]) = m + 1 /\ f[m + 1][m + 1] = s[m + 1]
        /\ \A i \in 1 .. m : f[m + 1][i] = f[m][i]
    BY <2>2, <2>3, <2>4, AppendProperties
  <2>6. \A i \in 1 .. m + 1 : i \in 1 .. m \/ i = m + 1
    BY <2>1
  <2>7. QED
    BY <2>2, <2>5, <2>6
<1>5. T = Nat
  <2> HIDE DEF T
  <2>1. T \in SUBSET Nat
    BY DEF T
  <2>2. QED
    BY <1>3, <1>4, <2>1, SetInduction
<1>6. Len(s) \in Nat /\ Copied(Len(s)) /\ f[Len(s)] \in Seq(S)
  BY <1>2, <1>5, LenProperties
<1>7. QED
  BY <1>1, <1>6, SeqEqual
=============================================================================
