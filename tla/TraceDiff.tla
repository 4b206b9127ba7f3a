------------------------------- MODULE TraceDiff -------------------------------
(***************************************************************************)
(* diff.py: the structural diff of two runs of Alignment.  A step is its   *)
(* type and engine; difflib's SequenceMatcher pairs the steps that stay.   *)
(***************************************************************************)
EXTENDS Alignment

Signature(e) == <<e.type, e.engine>>

(* The signatures of the steps of a run, with the numbers of its events.   *)
Elements(run, minimum) ==
  LET seqs == SelectSeq([i \in DOMAIN run |-> i], LAMBDA i : run[i].priority >= minimum)
  IN  [k \in DOMAIN seqs |-> [seq |-> seqs[k], signature |-> Signature(run[seqs[k]])]]

(* difflib: the longest block of equal elements, the earliest in a, then   *)
(* in b; then the same to its left and to its right.                       *)
Better(x, y) ==
  \/ x.size > y.size
  \/ x.size = y.size /\ x.a < y.a
  \/ x.size = y.size /\ x.a = y.a /\ x.b < y.b

Blocks(a, b, A, B) ==
  {x \in [a : A, b : B, size : 1 .. Cardinality(A)] :
     \A k \in 0 .. x.size - 1 :
       /\ x.a + k \in A /\ x.b + k \in B
       /\ a[x.a + k].signature = b[x.b + k].signature}

RECURSIVE Paired(_, _, _, _)
Paired(a, b, A, B) ==
  LET blocks == Blocks(a, b, A, B)
      x == CHOOSE x \in blocks : \A y \in blocks \ {x} : Better(x, y)
  IN  IF blocks = {} THEN {}
      ELSE {<<x.a + k, x.b + k>> : k \in 0 .. x.size - 1}
           \cup Paired(a, b, {i \in A : i < x.a}, {j \in B : j < x.b})
           \cup Paired(a, b, {i \in A : i >= x.a + x.size}, {j \in B : j >= x.b + x.size})

Change(kind, e) == [kind |-> kind, seq |-> e.seq, signature |-> e.signature]

(* The elements of a in an opcode delete or replace, which are those that  *)
(* are in no matching block.                                               *)
Removed(a, b, pairs) == DOMAIN a \ {p[1] : p \in pairs}

Added(a, b, pairs) == DOMAIN b \ {p[2] : p \in pairs}

(* TraceDiffEngine.diff                                                    *)
Diff(golden, candidate, minimum) ==
  LET a == Elements(golden, minimum)
      b == Elements(candidate, minimum)
      pairs == Paired(a, b, DOMAIN a, DOMAIN b)
  IN  {Change("removed", a[i]) : i \in Removed(a, b, pairs)}
      \cup {Change("added", b[j]) : j \in Added(a, b, pairs)}
=============================================================================
