------------------------------ MODULE LossyQueue -------------------------------
(***************************************************************************)
(* What the write buffer promises to the writer behind it: a queue that    *)
(* may lose rows, but counts each loss, and that hands the others over in  *)
(* the order in which they were accepted and none of them twice.           *)
(***************************************************************************)
EXTENDS Naturals

CONSTANT Item    \* the items that may be offered

VARIABLES
  next,       \* the stamp of the next item to be accepted
  pending,    \* the stamped items that are accepted and not handed over
  delivered,  \* the stamped items handed over
  lost        \* how many items were refused or shed

qvars == <<next, pending, delivered, lost>>

Init == next = 0 /\ pending = {} /\ delivered = {} /\ lost = 0

Accept(item) ==
  /\ next' = next + 1
  /\ pending' = pending \cup {[stamp |-> next, row |-> item]}
  /\ UNCHANGED <<delivered, lost>>

Refuse ==
  /\ lost' = lost + 1
  /\ UNCHANGED <<next, pending, delivered>>

Shed(e) ==
  /\ pending' = pending \ {e}
  /\ lost' = lost + 1
  /\ UNCHANGED <<next, delivered>>

(* A non-empty prefix of what is pending is handed over at once.           *)
Deliver(S) ==
  /\ S # {}
  /\ \A e \in S, f \in pending \ S : e.stamp < f.stamp
  /\ pending' = pending \ S
  /\ delivered' = delivered \cup S
  /\ UNCHANGED <<next, lost>>

Next ==
  \/ \E item \in Item : Accept(item)
  \/ Refuse
  \/ \E e \in pending : Shed(e)
  \/ \E S \in SUBSET pending : Deliver(S)

Spec == Init /\ [][Next]_qvars
=============================================================================
